---- MODULE Spec2Model ----
(***************************************************************************)
(* mini-crm: dynamic schema validation, link reconciliation, record        *)
(* deletion cascade and search-index synchronisation, modelled from        *)
(* src/app/routers/{records,schema,link}.py and                            *)
(* src/app/utils/elasticsearch.py.                                         *)
(*                                                                         *)
(* Python values are tagged records [t, n, s, xs]; None ids are 0 (ids     *)
(* start at 1 and the code tests them by truthiness).                      *)
(***************************************************************************)
EXTENDS Integers, Sequences, FiniteSets, TLC

VARIABLES
    tables,        \* rows of Table: [id, name]
    columns,       \* rows of Column
    enums,         \* rows of EnumModel: [id, name, values], values the EnumValueModel rows
    linkTables,    \* rows of LinkTable: [id, name, from_table_id, to_table_id]
    linkColumns,   \* rows of LinkColumn
    records,       \* rows of Record: [id, table_id, data]
    linkRecords,   \* rows of LinkRecord: [id, link_table_id, from_record_id, to_record_id, data]
    seqs,          \* primary-key sequences: [record, link_record, table, column, link_table]
    es,            \* search engine: [docs]
    tasks,         \* dispatched background tasks not yet run
    ws,            \* ConnectionManager and the sockets: [active_connections, open,
                   \* used, received]
    last           \* outcome of the last request or background task

vars == <<tables, columns, enums, linkTables, linkColumns, records, linkRecords,
          seqs, es, tasks, ws, last>>

schemaVars == <<tables, columns, enums, linkTables, linkColumns>>

-----------------------------------------------------------------------------
(* Bounds of the model *)

MaxRecords == 2
MaxLinkRecords == 2
MaxTasks == 2
MaxNewSchemaRows == 1
MaxRenderRecords == 3
MaxConcurrentTasks == 4
MaxSockets == 2

-----------------------------------------------------------------------------
(* Python values *)

IntV(n) == [t |-> "int", n |-> n, s |-> "", xs |-> <<>>]
StrV(s) == [t |-> "str", n |-> 0, s |-> s, xs |-> <<>>]
BoolV(n) == [t |-> "bool", n |-> n, s |-> "", xs |-> <<>>]
FloatV(n) == [t |-> "float", n |-> n, s |-> "", xs |-> <<>>]
ListV(xs) == [t |-> "list", n |-> 0, s |-> "", xs |-> xs]
IntItem(n) == [t |-> "int", n |-> n, s |-> ""]
StrItem(s) == [t |-> "str", n |-> 0, s |-> s]

\* isinstance(v, int): bool is a subclass of int
IsInt(v) == v.t \in {"int", "bool"}
IsNumber(v) == v.t \in {"int", "bool", "float"}
IsStr(v) == v.t = "str"
IsBool(v) == v.t = "bool"
IsList(v) == v.t = "list"

\* dateutil.parser.parse raises ValueError on these strings
UnparsableDates == {"", "abc", "x", "y", "Acme"}
ParsesAsDate(s) == s \notin UnparsableDates

\* str.lower() on the names the model uses
Lower(s) ==
    CASE s = "Person" -> "person"
      [] s = "Company" -> "company"
      [] s = "Client" -> "client"
      [] s = "Code" -> "code"
      [] s = "Name" -> "name"
      [] s = "Integer" -> "integer"
      [] OTHER -> s

EmptyMap == [k \in {} |-> 0]

RECURSIVE SetToSeq(_)
SetToSeq(S) ==
    IF S = {} THEN <<>>
    ELSE LET x == CHOOSE y \in S : TRUE IN <<x>> \o SetToSeq(S \ {x})

\* rows ordered by primary key, as a select returns them
RECURSIVE ById(_)
ById(S) ==
    IF S = {} THEN <<>>
    ELSE LET x == CHOOSE y \in S : \A z \in S : y.id <= z.id
         IN <<x>> \o ById(S \ {x})

RECURSIVE Flatten(_)
Flatten(ss) == IF ss = <<>> THEN <<>> ELSE Head(ss) \o Flatten(Tail(ss))

Range(f) == {f[i] : i \in DOMAIN f}

-----------------------------------------------------------------------------
(* Primary storage lookups *)

\* session.get(Model, id): the row or nothing
Has(rows, id) == \E r \in rows : r.id = id
Get(rows, id) == CHOOSE r \in rows : r.id = id

TableByName(name) == {t \in tables : t.name = name}
ColumnsOf(table_id) == ById({c \in columns : c.table_id = table_id})
ColumnNamed(cols, name) == {cols[i] : i \in {j \in DOMAIN cols : cols[j].name = name}}
LinkColumnsOf(link_table_id) == ById({c \in linkColumns : c.link_table_id = link_table_id})

Err(kind, field) == [kind |-> kind, field |-> field]

-----------------------------------------------------------------------------
(* validate_record_data *)

\* truthiness of a Python value (line 157)
Truthy(v) ==
    CASE v.t \in {"int", "bool", "float"} -> v.n # 0
      [] v.t = "str" -> v.s # ""
      [] v.t = "list" -> v.xs # <<>>
      [] OTHER -> FALSE

ItemToVal(it) == [t |-> it.t, n |-> it.n, s |-> it.s, xs |-> <<>>]

\* the branches shared by main columns and link columns:
\* integer, float/currency, string, boolean, date, datetime, enum/picklist
ScalarTypeErrors(data_type, enum_id, key, value) ==
    LET expected_type == Lower(data_type) IN
    CASE expected_type = "integer" ->
            IF ~IsInt(value) THEN <<Err("type", key)>> ELSE <<>>
      [] expected_type \in {"float", "currency"} ->
            IF ~IsNumber(value) THEN <<Err("type", key)>> ELSE <<>>
      [] expected_type = "string" ->
            IF ~IsStr(value) THEN <<Err("type", key)>> ELSE <<>>
      [] expected_type = "boolean" ->
            IF ~IsBool(value) THEN <<Err("type", key)>> ELSE <<>>
      [] expected_type \in {"date", "datetime"} ->
            IF ~IsStr(value) THEN <<Err("type", key)>>
            ELSE IF ~ParsesAsDate(value.s) THEN <<Err("format", key)>>
            ELSE <<>>
      [] expected_type \in {"enum", "picklist"} ->
            IF ~IsStr(value) THEN <<Err("type", key)>>
            ELSE IF enum_id # 0
                 THEN IF ~Has(enums, enum_id) THEN <<Err("enum_not_found", key)>>
                      ELSE IF value.s \notin Range(Get(enums, enum_id).values)
                           THEN <<Err("enum_value", key)>>
                           ELSE <<>>
                 ELSE <<>>
      [] OTHER -> <<>>

\* the reference branch: only the Python type of the id(s) is looked at
ReferenceErrors(column, key, value) ==
    IF column.is_list
    THEN IF ~IsList(value) THEN <<Err("type", key)>>
         ELSE Flatten([i \in DOMAIN value.xs |->
                         IF ~IsInt(value.xs[i]) THEN <<Err("item_type", key)>> ELSE <<>>])
    ELSE IF ~IsInt(value) THEN <<Err("type", key)>> ELSE <<>>

\* lines 52-111: one key of the main data
FieldErrors(cols, key, value) ==
    LET column_dict == ColumnNamed(cols, key) IN
    IF column_dict = {} THEN <<Err("invalid_field", key)>>
    ELSE LET column == CHOOSE c \in column_dict : TRUE IN
         IF Lower(column.data_type) = "reference"
         THEN ReferenceErrors(column, key, value)
         ELSE ScalarTypeErrors(column.data_type, column.enum_id, key, value)

\* lines 46-49
RequiredErrors(cols, data) ==
    Flatten([i \in DOMAIN cols |->
                IF cols[i].required /\ cols[i].name \notin DOMAIN data
                THEN <<Err("missing", cols[i].name)>> ELSE <<>>])

\* lines 145-157: the ids of the main field a link entry may inherit
MainToRecordIds(column, data) ==
    IF column.is_list
    THEN IF column.name \in DOMAIN data
         THEN [i \in DOMAIN data[column.name].xs |-> ItemToVal(data[column.name].xs[i])]
         ELSE <<>>
    ELSE IF column.name \in DOMAIN data /\ Truthy(data[column.name])
         THEN <<data[column.name]>> ELSE <<>>

ExtraSingularEntry_Never(is_list, idx) == FALSE

\* lines 164-169: `if not is_list and idx > 0` (idx is 1-based here)
ExtraSingularEntry(is_list, idx) == ~is_list /\ idx > 1

\* lines 171-178: validation writes the inferred to_record_id into the entry
\* itself, and process_link_data later reads the same object (idx is 1-based here)
InferToRecordId(is_list, main_ids, item, idx) ==
    IF ~item.isdict \/ ExtraSingularEntry(is_list, idx) \/ "to_record_id" \in DOMAIN item.d
    THEN item
    ELSE IF ~is_list
         THEN IF main_ids # <<>>
              THEN [item EXCEPT !.d = [k \in DOMAIN item.d \cup {"to_record_id"} |->
                        IF k = "to_record_id" THEN main_ids[1] ELSE item.d[k]]]
              ELSE item
         ELSE IF idx <= Len(main_ids)
              THEN [item EXCEPT !.d = [k \in DOMAIN item.d \cup {"to_record_id"} |->
                        IF k = "to_record_id" THEN main_ids[idx] ELSE item.d[k]]]
              ELSE item

\* lines 204-275: the entry's attributes against the link table's columns
LinkColumnErrors(link_table, d, key) ==
    LET lcols == LinkColumnsOf(link_table.id) IN
    Flatten([i \in DOMAIN lcols |->
        (IF lcols[i].required /\ lcols[i].name \notin DOMAIN d
         THEN <<Err("link_missing", key)>> ELSE <<>>)
        \o (IF lcols[i].name \in DOMAIN d
            THEN ScalarTypeErrors(lcols[i].data_type, lcols[i].enum_id, key, d[lcols[i].name])
            ELSE <<>>)])

\* lines 159-275: one entry of a link data list
LinkItemErrors(link_table, is_list, main_ids, key, item, idx) ==
    IF ~item.isdict THEN <<Err("link_not_dict", key)>>
    ELSE IF ExtraSingularEntry(is_list, idx) THEN <<Err("link_only_one", key)>>
    ELSE LET it == InferToRecordId(is_list, main_ids, item, idx) IN
         IF "to_record_id" \notin DOMAIN it.d THEN <<Err("link_no_to_record_id", key)>>
         ELSE LET to_record_id == it.d["to_record_id"] IN
              IF ~IsInt(to_record_id) THEN <<Err("link_to_type", key)>>
              ELSE IF ~Has(records, to_record_id.n) THEN <<Err("link_to_missing", key)>>
              ELSE (IF Get(records, to_record_id.n).table_id # link_table.to_table_id
                    THEN <<Err("link_to_table", key)>> ELSE <<>>)
                   \o LinkColumnErrors(link_table, it.d, key)

\* lines 114-275: one key of the link data
LinkKeyErrors(cols, data, key, value) ==
    LET column_dict == ColumnNamed(cols, key) IN
    IF column_dict = {} THEN <<Err("link_invalid_field", key)>>
    ELSE LET column == CHOOSE c \in column_dict : TRUE IN
         IF column.reference_link_table_id = 0 THEN <<Err("link_no_link_table", key)>>
         ELSE IF ~Has(linkTables, column.reference_link_table_id)
              THEN <<Err("link_table_not_found", key)>>
         ELSE IF value.shape \notin {"dict", "list"} THEN <<Err("link_shape", key)>>
         ELSE IF column.is_list /\ column.name \in DOMAIN data /\ ~IsList(data[column.name])
              THEN <<Err("link_main_not_list", key)>>
         ELSE LET link_table == Get(linkTables, column.reference_link_table_id)
                  main_ids == MainToRecordIds(column, data)
              IN Flatten([i \in DOMAIN value.items |->
                     LinkItemErrors(link_table, column.is_list, main_ids, key,
                                    value.items[i], i)])

\* the link data as validation leaves it (to_record_id filled in where inferred)
LinkKeyAfterValidation(cols, data, key, value) ==
    LET column_dict == ColumnNamed(cols, key) IN
    IF column_dict = {} THEN value
    ELSE LET column == CHOOSE c \in column_dict : TRUE IN
         IF \/ column.reference_link_table_id = 0
            \/ ~Has(linkTables, column.reference_link_table_id)
            \/ value.shape \notin {"dict", "list"}
            \/ (column.is_list /\ column.name \in DOMAIN data /\ ~IsList(data[column.name]))
         THEN value
         ELSE [value EXCEPT !.items = [i \in DOMAIN value.items |->
                  InferToRecordId(column.is_list, MainToRecordIds(column, data),
                                  value.items[i], i)]]

LinkDataAfterValidation(table, data, link_data) ==
    [k \in DOMAIN link_data |->
        LinkKeyAfterValidation(ColumnsOf(table.id), data, k, link_data[k])]

\* lines 41-276: the error list
ValidationErrors(table, data, link_data) ==
    LET cols == ColumnsOf(table.id)
        keys == SetToSeq(DOMAIN data)
        lkeys == SetToSeq(DOMAIN link_data)
    IN RequiredErrors(cols, data)
       \o Flatten([i \in DOMAIN keys |-> FieldErrors(cols, keys[i], data[keys[i]])])
       \o Flatten([i \in DOMAIN lkeys |->
                      LinkKeyErrors(cols, data, lkeys[i], link_data[lkeys[i]])])

ValidationPasses_Always(errors) == TRUE

\* lines 277-278: raise HTTPException(400) iff the list is non-empty
ValidationPasses(errors) == errors = <<>>

-----------------------------------------------------------------------------
(* process_link_data *)

\* link_item.get("to_record_id")
ToRecordId(item) ==
    IF "to_record_id" \in DOMAIN item.d THEN item.d["to_record_id"].n ELSE 0

\* lines 317-319
AdditionalData(item) == [k \in DOMAIN item.d \ {"to_record_id"} |-> item.d[k]]

\* lines 313-320
NewLinks(value) ==
    [i \in DOMAIN value.items |->
        [to |-> ToRecordId(value.items[i]), data |-> AdditionalData(value.items[i])]]

ExistingLinks_AnyLinkTable(links, link_table_id, record_id) ==
    {lr \in links : lr.from_record_id = record_id}

\* lines 322-328
ExistingLinks(links, link_table_id, record_id) ==
    {lr \in links : lr.link_table_id = link_table_id /\ lr.from_record_id = record_id}

\* lines 337-346: one row per ENTRY of the payload whose id is in to_add
LinksToInsert(new_links, to_add) == SelectSeq(new_links, LAMBDA nl : nl.to \in to_add)

\* lines 352-356: the first payload entry for the edge's to_record_id
CorrespondingLinks(new_links, lr) == SelectSeq(new_links, LAMBDA nl : nl.to = lr.to_record_id)

\* lines 349-359
LinksToRewrite(existing_links, new_links, to_remove) ==
    {lr \in existing_links :
        /\ lr.to_record_id \notin to_remove
        /\ CorrespondingLinks(new_links, lr) # <<>>
        /\ lr.data # Head(CorrespondingLinks(new_links, lr)).data}

\* lines 362-364
LinksToDelete(existing_links, to_remove) ==
    {lr \in existing_links : lr.to_record_id \in to_remove}

\* lines 291-364 for one key; acc = [links, next] is the session's
\* view, which each key's select sees (autoflush)
ProcessLinkKey(table, record, key, value, acc) ==
    LET column_set == ColumnNamed(ColumnsOf(table.id), key) IN
    IF column_set = {} THEN acc
    ELSE LET column == CHOOSE c \in column_set : TRUE IN
         IF \/ column.reference_link_table_id = 0
            \/ ~Has(linkTables, column.reference_link_table_id)
            \/ value.shape \notin {"dict", "list"}
         THEN acc
         ELSE LET link_table == Get(linkTables, column.reference_link_table_id)
                  new_links == NewLinks(value)
                  existing_links == ExistingLinks(acc.links, link_table.id, record.id)
                  existing_to_ids == {lr.to_record_id : lr \in existing_links}
                  new_to_ids == {new_links[i].to : i \in DOMAIN new_links}
                  to_add == new_to_ids \ existing_to_ids
                  to_remove == existing_to_ids \ new_to_ids
                  adds == LinksToInsert(new_links, to_add)
                  inserted == {[id |-> acc.next + i - 1,
                                link_table_id |-> link_table.id,
                                from_record_id |-> record.id,
                                to_record_id |-> adds[i].to,
                                data |-> adds[i].data] : i \in DOMAIN adds}
                  changed == LinksToRewrite(existing_links, new_links, to_remove)
                  removed == LinksToDelete(existing_links, to_remove)
              IN [links |-> ((acc.links \ (changed \cup removed))
                              \cup {[lr EXCEPT !.data =
                                       Head(CorrespondingLinks(new_links, lr)).data]
                                    : lr \in changed}
                              \cup inserted),
                  next |-> acc.next + Len(adds)]

RECURSIVE ProcessLinkKeys(_, _, _, _, _)
ProcessLinkKeys(table, record, link_data, keys, acc) ==
    IF keys = <<>> THEN acc
    ELSE ProcessLinkKeys(table, record, link_data, Tail(keys),
                         ProcessLinkKey(table, record, Head(keys), link_data[Head(keys)], acc))

\* lines 281-364: everything the call stages before its single commit
ProcessLinkData(table, record, link_data) ==
    ProcessLinkKeys(table, record, link_data, SetToSeq(DOMAIN link_data),
                    [links |-> linkRecords, next |-> seqs.link_record])

-----------------------------------------------------------------------------
(* Requests, responses and background tasks *)

\* RecordCreate.data, split as the handlers split it: req.data holds the plain
\* keys, req.link the keys ending in "_link_data"
NoReq == [data |-> EmptyMap, link |-> EmptyMap]

\* key[:-10]
StripLinkSuffix(key) ==
    CASE key = "friends_link_data" -> "friends"
      [] key = "boss_link_data" -> "boss"
      [] key = "Name_link_data" -> "Name"
      [] OTHER -> key

\* create_record lines 389-394, update_record lines 481-486
ExtractLinkData(req) ==
    [k \in {StripLinkSuffix(x) : x \in DOMAIN req.link} |->
        req.link[CHOOSE x \in DOMAIN req.link : StripLinkSuffix(x) = k]]

Resp(op, status, why) ==
    [op |-> op, status |-> status, why |-> why, table |-> "", rid |-> 0,
     req |-> NoReq, errors |-> <<>>, links |-> {}, text |-> <<>>,
     hits |-> <<>>, results |-> <<>>, concurrent |-> NoReq, depth |-> 0]

RecordResp(op, status, why, table_name, rid, req) ==
    [Resp(op, status, why) EXCEPT !.table = table_name, !.rid = rid, !.req = req]

NoTask == [kind |-> "none", table_name |-> "", record_id |-> 0, table_id |-> 0,
           data |-> EmptyMap, type |-> "", action |-> "", nargs |-> 0,
           payload |-> ""]
IndexRecordTask(table_name, record_id, data) ==
    [NoTask EXCEPT !.kind = "index_record", !.table_name = table_name,
                   !.record_id = record_id, !.data = data]
RemoveRecordTask(table_name, record_id) ==
    [NoTask EXCEPT !.kind = "remove_record_from_index", !.table_name = table_name,
                   !.record_id = record_id]
BroadcastTask(type, action, table_name, record_id) ==
    [NoTask EXCEPT !.kind = "broadcast", !.type = type, !.action = action,
                   !.table_name = table_name, !.record_id = record_id,
                   !.payload = "str"]

\* BackgroundTasks of one request run in order after the response
Dispatch(batch) == tasks' = Append(tasks, batch)

RECURSIVE PendingTasks(_)
PendingTasks(batches) ==
    IF batches = <<>> THEN 0 ELSE Len(Head(batches)) + PendingTasks(Tail(batches))

\* the model keeps at most MaxTasks background tasks pending
CanDispatch(n) == PendingTasks(tasks) + n <= MaxTasks

-----------------------------------------------------------------------------
(* Record endpoints *)

\* lines 366-374: session.commit() stores what the call staged for all keys,
\* session.rollback() discards all of it
LinkCommit_KeepsStaged(ok, staged, links) == staged

LinkCommit(ok, staged, links) == IF ok THEN staged ELSE links

\* lines 411-425 and 505-519: the two tasks a write hands to BackgroundTasks
WriteTasks_NextId(table_name, record_id, data, action) ==
    <<IndexRecordTask(table_name, record_id + 1, data),
      BroadcastTask("data_update", action, table_name, record_id + 1)>>

WriteTasks(table_name, record_id, data, action) ==
    <<IndexRecordTask(table_name, record_id, data),
      BroadcastTask("data_update", action, table_name, record_id)>>

\* records.py 377-430
CreateRecord(table_name, req, commit_ok, link_commit_ok) ==
    /\ UNCHANGED ws
    /\ CanDispatch(2)
    /\ seqs.record <= MaxRecords
    /\ IF TableByName(table_name) = {}
       THEN /\ last' = RecordResp("create_record", 404, "table_not_found", table_name, 0, req)
            /\ UNCHANGED <<schemaVars, records, linkRecords, seqs, es, tasks>>
       ELSE LET table == CHOOSE t \in TableByName(table_name) : TRUE
                link_data == ExtractLinkData(req)
                data == req.data
                errors == ValidationErrors(table, data, link_data)
            IN IF ~ValidationPasses(errors)
               THEN /\ last' = [RecordResp("create_record", 400, "validation", table_name, 0, req) EXCEPT !.errors = errors]
                    /\ UNCHANGED <<schemaVars, records, linkRecords, seqs, es, tasks>>
               ELSE IF ~commit_ok
               THEN /\ last' = RecordResp("create_record", 400, "commit", table_name, 0, req)
                    /\ UNCHANGED <<schemaVars, records, linkRecords, seqs, es, tasks>>
               ELSE LET db_record == [id |-> seqs.record, table_id |-> table.id, data |-> data]
                        pl == ProcessLinkData(table, db_record,
                                  LinkDataAfterValidation(table, data, link_data))
                    IN /\ pl.next - 1 <= MaxLinkRecords
                       /\ records' = records \cup {db_record}
                       /\ UNCHANGED <<schemaVars, es>>
                       /\ linkRecords' = LinkCommit(link_commit_ok, pl.links, linkRecords)
                       /\ IF link_commit_ok
                          THEN /\ seqs' = [seqs EXCEPT !.record = @ + 1,
                                                       !.link_record = pl.next]
                               /\ Dispatch(WriteTasks(table.name, db_record.id, data, "create"))
                               /\ last' = RecordResp("create_record", 200, "ok", table_name, db_record.id, req)
                          ELSE /\ seqs' = [seqs EXCEPT !.record = @ + 1]
                               /\ last' = RecordResp("create_record", 400, "link_commit", table_name, db_record.id, req)
                               /\ UNCHANGED tasks

\* lines 475-477 and 538-540: the record with this id in the table named
RecordOfTable_AnyTable(table, record_id) ==
    {r \in records : r.id = record_id}

RecordOfTable(table, record_id) ==
    {r \in records : r.id = record_id /\ r.table_id = table.id}

\* records.py 462-524
UpdateRecordRequest(table_name, record_id, req, commit_ok, link_commit_ok) ==
    /\ UNCHANGED ws
    /\ IF TableByName(table_name) = {}
       THEN /\ last' = RecordResp("update_record", 404, "table_not_found", table_name, record_id, req)
            /\ UNCHANGED <<schemaVars, records, linkRecords, seqs, es, tasks>>
       ELSE LET table == CHOOSE t \in TableByName(table_name) : TRUE
                found == RecordOfTable(table, record_id)
                link_data == ExtractLinkData(req)
                data == req.data
                errors == ValidationErrors(table, data, link_data)
            IN IF found = {}
               THEN /\ last' = RecordResp("update_record", 404, "record_not_found", table_name, record_id, req)
                    /\ UNCHANGED <<schemaVars, records, linkRecords, seqs, es, tasks>>
               ELSE IF ~ValidationPasses(errors)
               THEN /\ last' = [RecordResp("update_record", 400, "validation", table_name, record_id, req)
                                EXCEPT !.errors = errors]
                    /\ UNCHANGED <<schemaVars, records, linkRecords, seqs, es, tasks>>
               ELSE IF ~commit_ok
               THEN /\ last' = RecordResp("update_record", 400, "commit", table_name, record_id, req)
                    /\ UNCHANGED <<schemaVars, records, linkRecords, seqs, es, tasks>>
               ELSE LET old == CHOOSE r \in found : TRUE
                        db_record == [old EXCEPT !.data = data]
                        pl == ProcessLinkData(table, db_record,
                                  LinkDataAfterValidation(table, data, link_data))
                    IN /\ pl.next - 1 <= MaxLinkRecords
                       /\ records' = (records \ {old}) \cup {db_record}
                       /\ UNCHANGED <<schemaVars, es>>
                       /\ linkRecords' = LinkCommit(link_commit_ok, pl.links, linkRecords)
                       /\ IF link_commit_ok
                          THEN /\ seqs' = [seqs EXCEPT !.link_record = pl.next]
                               /\ Dispatch(WriteTasks(table.name, db_record.id, data, "update"))
                               /\ last' = RecordResp("update_record", 200, "ok", table_name, db_record.id, req)
                          ELSE /\ last' = RecordResp("update_record", 400, "link_commit", table_name, db_record.id, req)
                               /\ UNCHANGED <<seqs, tasks>>

\* the request, admitted while the model has room for its two tasks
UpdateRecord(table_name, record_id, req, commit_ok, link_commit_ok) ==
    /\ CanDispatch(2)
    /\ UpdateRecordRequest(table_name, record_id, req, commit_ok, link_commit_ok)

\* lines 544-550: the LinkRecords in which the record is either endpoint
LinksOfRecord_FromOnly(links, record_id) ==
    {lr \in links : lr.from_record_id = record_id}

LinksOfRecord(links, record_id) ==
    {lr \in links : lr.from_record_id = record_id \/ lr.to_record_id = record_id}

\* records.py 527-576
DeleteRecordRequest(table_name, record_id, commit_ok) ==
    /\ UNCHANGED ws
    /\ IF TableByName(table_name) = {}
       THEN /\ last' = RecordResp("delete_record", 404, "table_not_found", table_name, record_id, NoReq)
            /\ UNCHANGED <<schemaVars, records, linkRecords, seqs, es, tasks>>
       ELSE LET table == CHOOSE t \in TableByName(table_name) : TRUE
                found == RecordOfTable(table, record_id)
            IN IF found = {}
               THEN /\ last' = RecordResp("delete_record", 404, "record_not_found", table_name, record_id, NoReq)
                    /\ UNCHANGED <<schemaVars, records, linkRecords, seqs, es, tasks>>
               ELSE IF ~commit_ok
               THEN /\ last' = RecordResp("delete_record", 400, "commit", table_name, record_id, NoReq)
                    /\ UNCHANGED <<schemaVars, records, linkRecords, seqs, es, tasks>>
               ELSE /\ linkRecords' = linkRecords \ LinksOfRecord(linkRecords, record_id)
                    /\ records' = records \ found
                    /\ Dispatch(<<RemoveRecordTask(table.name, record_id),
                                  BroadcastTask("data_update", "delete",
                                                table.name, record_id)>>)
                    /\ last' = [RecordResp("delete_record", 200, "ok", table_name,
                                            record_id, NoReq)
                                 EXCEPT !.links = LinksOfRecord(linkRecords, record_id)]
                    /\ UNCHANGED <<schemaVars, seqs, es>>

DeleteRecord(table_name, record_id, commit_ok) ==
    /\ CanDispatch(2)
    /\ DeleteRecordRequest(table_name, record_id, commit_ok)

-----------------------------------------------------------------------------
(* Link record endpoints *)

\* link.py 399-412 and 490-503: both endpoints exist and sit in the declared tables
LinkEndpointsStatus(link_table, from_record_id, to_record_id) ==
    IF ~Has(records, from_record_id) \/ ~Has(records, to_record_id) THEN 404
    ELSE IF Get(records, from_record_id).table_id # link_table.from_table_id THEN 400
    ELSE IF Get(records, to_record_id).table_id # link_table.to_table_id THEN 400
    ELSE 200

\* link.py 387-442
CreateLinkRecord(link_table_id, from_record_id, to_record_id, data, commit_ok) ==
    /\ UNCHANGED ws
    /\ CanDispatch(1)
    /\ seqs.link_record <= MaxLinkRecords
    /\ UNCHANGED <<schemaVars, records, es>>
    /\ IF ~Has(linkTables, link_table_id)
       THEN /\ last' = Resp("create_link_record", 404, "link_table_not_found")
            /\ UNCHANGED <<linkRecords, seqs, tasks>>
       ELSE LET link_table == Get(linkTables, link_table_id)
                status == LinkEndpointsStatus(link_table, from_record_id, to_record_id)
            IN IF status # 200
               THEN /\ last' = Resp("create_link_record", status, "endpoints")
                    /\ UNCHANGED <<linkRecords, seqs, tasks>>
               ELSE IF ~commit_ok
               THEN /\ last' = Resp("create_link_record", 400, "commit")
                    /\ UNCHANGED <<linkRecords, seqs, tasks>>
               ELSE /\ linkRecords' = linkRecords \cup
                            {[id |-> seqs.link_record, link_table_id |-> link_table_id,
                              from_record_id |-> from_record_id,
                              to_record_id |-> to_record_id, data |-> data]}
                    /\ seqs' = [seqs EXCEPT !.link_record = @ + 1]
                    /\ Dispatch(<<BroadcastTask("data_update", "create_link_record",
                                                link_table.name, seqs.link_record)>>)
                    /\ last' = [Resp("create_link_record", 200, "ok")
                                EXCEPT !.rid = seqs.link_record]

\* link.py 474-532
UpdateLinkRecord(record_id, from_record_id, to_record_id, data, commit_ok) ==
    /\ UNCHANGED ws
    /\ CanDispatch(1)
    /\ UNCHANGED <<schemaVars, records, seqs, es>>
    /\ IF ~Has(linkRecords, record_id)
       THEN /\ last' = Resp("update_link_record", 404, "link_record_not_found")
            /\ UNCHANGED <<linkRecords, tasks>>
       ELSE LET db_record == Get(linkRecords, record_id) IN
            IF ~Has(linkTables, db_record.link_table_id)
            THEN /\ last' = Resp("update_link_record", 404, "link_table_not_found")
                 /\ UNCHANGED <<linkRecords, tasks>>
            ELSE LET link_table == Get(linkTables, db_record.link_table_id)
                     status == LinkEndpointsStatus(link_table, from_record_id, to_record_id)
                 IN IF status # 200
                    THEN /\ last' = Resp("update_link_record", status, "endpoints")
                         /\ UNCHANGED <<linkRecords, tasks>>
                    ELSE IF ~commit_ok
                    THEN /\ last' = Resp("update_link_record", 400, "commit")
                         /\ UNCHANGED <<linkRecords, tasks>>
                    ELSE /\ linkRecords' = (linkRecords \ {db_record}) \cup
                                 {[db_record EXCEPT !.from_record_id = from_record_id,
                                                    !.to_record_id = to_record_id,
                                                    !.data = data]}
                         /\ Dispatch(<<BroadcastTask("data_update", "update_link_record",
                                                     link_table.name, record_id)>>)
                         /\ last' = [Resp("update_link_record", 200, "ok")
                                     EXCEPT !.rid = record_id]

\* link.py 535-569
DeleteLinkRecord(record_id, commit_ok) ==
    /\ UNCHANGED ws
    /\ CanDispatch(1)
    /\ UNCHANGED <<schemaVars, records, seqs, es>>
    /\ IF ~Has(linkRecords, record_id)
       THEN /\ last' = Resp("delete_link_record", 404, "link_record_not_found")
            /\ UNCHANGED <<linkRecords, tasks>>
       ELSE IF ~commit_ok
       THEN /\ last' = Resp("delete_link_record", 400, "commit")
            /\ UNCHANGED <<linkRecords, tasks>>
       ELSE LET record == Get(linkRecords, record_id)
                link_table_name == IF Has(linkTables, record.link_table_id)
                                   THEN Get(linkTables, record.link_table_id).name ELSE ""
            IN /\ linkRecords' = linkRecords \ {record}
               /\ Dispatch(<<BroadcastTask("data_update", "delete_link_record",
                                           link_table_name, record_id)>>)
               /\ last' = [Resp("delete_link_record", 200, "ok")
                           EXCEPT !.rid = record_id]

-----------------------------------------------------------------------------
(* Display rendering: elasticsearch.py 20-163                               *)
(*                                                                          *)
(* A rendered string is the sequence of its non-empty pieces, "" is <<>>.   *)
(* A template is a sequence of tokens: literal text or a {field}.           *)

Text(s) == IF s = "" THEN <<>> ELSE <<s>>
Lit(s) == [lit |-> s, field |-> ""]
Field(name) == [lit |-> "", field |-> name]

\* a value of the local data copy that was replaced by rendered text
TextV(text) == [t |-> "text", n |-> 0, s |-> "", xs |-> text]

\* ", ".join(texts)
RECURSIVE JoinText(_)
JoinText(texts) ==
    IF texts = <<>> THEN <<>>
    ELSE IF Len(texts) = 1 THEN Head(texts)
    ELSE Head(texts) \o <<", ">> \o JoinText(Tail(texts))

\* str(v), as str.format applies it to a field value
ScalarText(v) ==
    CASE v.t = "text" -> v.xs
      [] v.t = "str" -> Text(v.s)
      [] v.t = "int" -> <<ToString(v.n)>>
      [] v.t = "float" -> <<ToString(v.n), ".0">>
      [] OTHER -> <<IF v.n # 0 THEN "True" ELSE "False">>

StrText(v) ==
    IF IsList(v)
    THEN <<"[">> \o JoinText([i \in DOMAIN v.xs |-> ScalarText(ItemToVal(v.xs[i]))])
               \o <<"]">>
    ELSE ScalarText(v)

\* CustomFormatter.get_value (lines 24-35): a key the data lacks formats as ""
get_value(key, data) == IF key \in DOMAIN data THEN StrText(data[key]) ELSE <<>>

\* formatter.format(template, **data)
Format(template, data) ==
    Flatten([i \in DOMAIN template |->
                IF template[i].field = "" THEN Text(template[i].lit)
                ELSE get_value(template[i].field, data)])

\* depth: the generate_display_value frames the call had on the stack at its
\* deepest, itself included
Rendered(text) == [raised |-> FALSE, found |-> TRUE, text |-> text, depth |-> 0]
NotFound == [raised |-> FALSE, found |-> FALSE, text |-> <<>>, depth |-> 0]
\* RecursionError, TypeError or AttributeError leaving the function
RenderRaised == [raised |-> TRUE, found |-> FALSE, text |-> <<>>, depth |-> 0]

\* what the reference loop leaves under col.name
Resolved(value) == [raised |-> FALSE, value |-> value, depth |-> 0]
ResolveRaised == [raised |-> TRUE, value |-> TextV(<<>>), depth |-> 0]

MaxOf(S) == IF S = {} THEN 0 ELSE CHOOSE x \in S : \A y \in S : y <= x

\* lines 59-65: data[col.name] = ref_display_value, only if the record exists
SubstituteReference_KeepId(value, rendered) == value

SubstituteReference(value, rendered) ==
    IF rendered.found THEN TextV(rendered.text) ELSE value

\* lines 48-57 and 75-87: the renderings of the records found, joined, one
\* recursive call per record found
JoinRendered_NoCalls(results) == Rendered(<<>>)

JoinRendered(results) ==
    IF \E i \in DOMAIN results : results[i].raised THEN RenderRaised
    ELSE LET found == SelectSeq(results, LAMBDA r : r.found)
         IN [Rendered(JoinText([i \in DOMAIN found |-> found[i].text]))
             EXCEPT !.depth = MaxOf({found[i].depth : i \in DOMAIN found})]

\* lines 40-98 and 101-163: the two functions differ in the template they read
\* and in which of them they recurse into.  visiting is the set of records on
\* the call stack: the call for a record already on it never returns, Python
\* ends it with RecursionError.
RECURSIVE RenderRecord(_, _, _, _)
RenderRecord(table, record, secondary, visiting) ==
    IF record.id \in visiting THEN RenderRaised
    ELSE
    LET stack == visiting \cup {record.id}
        cols == ColumnsOf(table.id)
        \* session.get(Record, ref_id), session.get(Table, ...), recursive call;
        \* a missing table is checked on the link branch only (line 80)
        RenderRef(ref_id, table_checked) ==
            IF ~Has(records, ref_id) THEN NotFound
            ELSE LET ref_record == Get(records, ref_id) IN
                 IF ~Has(tables, ref_record.table_id)
                 THEN IF table_checked THEN NotFound ELSE RenderRaised
                 ELSE RenderRecord(Get(tables, ref_record.table_id), ref_record,
                                   secondary, stack)
        linked_records(col) ==
            ById({lr \in linkRecords :
                    /\ lr.link_table_id = col.reference_link_table_id
                    /\ lr.from_record_id = record.id})
        \* the value left under col.name, or the exception
        Resolve(col, ref_value) ==
            IF col.reference_table_id # 0
            THEN IF col.is_list
                 THEN IF ~IsList(ref_value) THEN ResolveRaised
                      ELSE LET joined == JoinRendered([i \in DOMAIN ref_value.xs |->
                                             RenderRef(ref_value.xs[i].n, FALSE)])
                           IN IF joined.raised THEN ResolveRaised
                              ELSE [Resolved(TextV(joined.text))
                                    EXCEPT !.depth = joined.depth]
                 ELSE LET rendered == RenderRef(ref_value.n, FALSE) IN
                      IF rendered.raised THEN ResolveRaised
                      ELSE [Resolved(SubstituteReference(ref_value, rendered))
                            EXCEPT !.depth = rendered.depth]
            ELSE IF col.reference_link_table_id # 0
            THEN LET lrs == linked_records(col)
                     joined == JoinRendered([i \in DOMAIN lrs |->
                                                RenderRef(lrs[i].to_record_id, TRUE)])
                 IN IF joined.raised THEN ResolveRaised
                    ELSE [Resolved(TextV(joined.text)) EXCEPT !.depth = joined.depth]
            ELSE Resolved(ref_value)
        reference_cols ==
            {cols[i] : i \in {j \in DOMAIN cols :
                                 /\ cols[j].data_type = "reference"
                                 /\ cols[j].name \in DOMAIN record.data}}
        resolved == [c \in reference_cols |-> Resolve(c, record.data[c.name])]
        data == [k \in DOMAIN record.data |->
                    IF \E c \in reference_cols : c.name = k
                    THEN resolved[CHOOSE c \in reference_cols : c.name = k].value
                    ELSE record.data[k]]
        template == IF secondary THEN table.display_format_secondary
                    ELSE table.display_format
        depth == 1 + MaxOf({resolved[c].depth : c \in reference_cols})
    IN IF \E c \in reference_cols : resolved[c].raised THEN RenderRaised
       ELSE IF template # <<>>
       THEN [Rendered(Format(template, data)) EXCEPT !.depth = depth]
       ELSE [Rendered(<<>>) EXCEPT !.depth = depth]

generate_display_value(table, record) == RenderRecord(table, record, FALSE, {})
generate_display_value_secondary(table, record) == RenderRecord(table, record, TRUE, {})

-----------------------------------------------------------------------------
(* Search index synchronisation: background tasks *)

\* elasticsearch.py 16-17
get_index_name(table_name) == <<"records_", Lower(table_name)>>

\* ", ".join(map(str, v)): the string is kept as the items it was joined from
JoinV(xs) == [t |-> "str", n |-> 0, s |-> "<joined>", xs |-> xs]

\* lines 222-229: EVERY key of the data handed to the task, lower-cased
IndexRecordData(data) ==
    [k \in {Lower(x) : x \in DOMAIN data} |->
        LET v == data[CHOOSE x \in DOMAIN data : Lower(x) = k]
        IN IF IsList(v) THEN JoinV(v.xs) ELSE v]

\* es.index(index, id, body): upsert by (index, id)
EsIndex(docs, doc) ==
    {d \in docs : ~(d.index = doc.index /\ d.id = doc.id)} \cup {doc}

\* the first task of batch i has run
PopTask(i) ==
    IF Len(tasks[i]) = 1
    THEN [j \in 1..(Len(tasks) - 1) |-> IF j < i THEN tasks[j] ELSE tasks[j + 1]]
    ELSE [tasks EXCEPT ![i] = Tail(@)]

\* the task raised: Starlette runs the batch in a loop, so the rest is skipped
DropBatch(i) ==
    [j \in 1..(Len(tasks) - 1) |-> IF j < i THEN tasks[j] ELSE tasks[j + 1]]

\* str(value): a string is itself, another value its printed form
StrOf(v) == IF IsStr(v) THEN v ELSE [t |-> "str", n |-> v.n, s |-> "<str>", xs |-> v.xs]

\* elasticsearch.py 274-290: the data fields index_existing_records writes
IndexExistingData(table, record) ==
    LET cols == {c \in columns : /\ c.table_id = table.id
                                 /\ c.searchable
                                 /\ c.name \in DOMAIN record.data}
    IN [k \in {Lower(c.name) : c \in cols} |->
           LET c == CHOOSE x \in cols : Lower(x.name) = k
               value == record.data[c.name]
           IN IF c.is_list
              THEN IF IsList(value) THEN JoinV(value.xs) ELSE StrOf(value)
              ELSE value]

\* the body handed to es.index (lines 235-242 and 301-308), without the timestamps
Doc_StaleDisplay(index, record, data, display_value, display_value_secondary) ==
    [index |-> index, id |-> record.id, table_id |-> record.table_id, data |-> data,
     display_value |-> <<>>, display_value_secondary |-> <<>>]

Doc(index, record, data, display_value, display_value_secondary) ==
    [index |-> index, id |-> record.id, table_id |-> record.table_id, data |-> data,
     display_value |-> display_value,
     display_value_secondary |-> display_value_secondary]

\* elasticsearch.py 198-248; es_fault: "none", "exists" (the uncaught
\* es.indices.exists of create_index_with_mappings) or "index" (es.index, caught).
\* The two renderings (lines 217-220) are outside the try as well.
RunIndexRecord(i, es_fault) ==
    /\ UNCHANGED ws
    /\ i \in DOMAIN tasks
    /\ Head(tasks[i]).kind = "index_record"
    /\ UNCHANGED <<schemaVars, records, linkRecords, seqs>>
    /\ LET task == Head(tasks[i])
           done(why) == /\ tasks' = PopTask(i)
                        /\ last' = RecordResp("index_record", 0, why, task.table_name,
                                              task.record_id,
                                              [NoReq EXCEPT !.data = task.data])
           raised(why) == /\ tasks' = DropBatch(i)
                          /\ last' = RecordResp("index_record", 500, why, task.table_name,
                                                task.record_id,
                                                [NoReq EXCEPT !.data = task.data])
                          /\ UNCHANGED es
       IN
       IF es_fault = "exists" THEN raised("es_raised")
       ELSE IF ~Has(records, task.record_id)
       THEN done("record_not_found") /\ UNCHANGED es
       ELSE LET record == Get(records, task.record_id) IN
            IF ~Has(tables, record.table_id)
            THEN done("table_not_found") /\ UNCHANGED es
            ELSE LET table == Get(tables, record.table_id)
                     display_value == generate_display_value(table, record)
                     display_value_secondary ==
                         generate_display_value_secondary(table, record)
                 IN IF display_value.raised \/ display_value_secondary.raised
                    THEN raised("render_raised")
                    ELSE IF es_fault = "index"
                    THEN done("es_error") /\ UNCHANGED es
                    ELSE /\ es' = [es EXCEPT !.docs = EsIndex(@,
                                      Doc(get_index_name(task.table_name), record,
                                          IndexRecordData(task.data),
                                          display_value.text,
                                          display_value_secondary.text))]
                         /\ done("ok")

\* es.delete(index, id): what is left of docs
EsDelete_Nothing(docs, index, id) == docs

EsDelete(docs, index, id) == {d \in docs : ~(d.index = index /\ d.id = id)}

\* elasticsearch.py 251-261: es.delete raises NotFoundError for an id the index
\* does not hold; it and every other exception are caught
RunRemoveRecordFromIndex(i, es_ok) ==
    /\ UNCHANGED ws
    /\ i \in DOMAIN tasks
    /\ Head(tasks[i]).kind = "remove_record_from_index"
    /\ UNCHANGED <<schemaVars, records, linkRecords, seqs>>
    /\ tasks' = PopTask(i)
    /\ LET task == Head(tasks[i])
           index_name == get_index_name(task.table_name)
           done(why) == last' = RecordResp("remove_record_from_index", 0, why,
                                           task.table_name, task.record_id, NoReq)
       IN
       IF ~es_ok THEN done("es_error") /\ UNCHANGED es
       ELSE IF ~\E d \in es.docs : d.index = index_name /\ d.id = task.record_id
       THEN done("not_found") /\ UNCHANGED es
       ELSE /\ es' = [es EXCEPT !.docs = EsDelete(@, index_name, task.record_id)]
            /\ done("ok")

\* elasticsearch.py 274-314 over the records the select returned: a rendering
\* that raises ends the task and keeps the documents written so far; a failing
\* es.index (record id in failing) is caught and the loop goes on
RECURSIVE IndexExisting(_, _, _, _)
IndexExisting(table, recs, failing, docs) ==
    IF recs = <<>> THEN [raised |-> FALSE, docs |-> docs]
    ELSE LET record == Head(recs)
             display_value == generate_display_value(table, record)
             display_value_secondary == generate_display_value_secondary(table, record)
         IN IF display_value.raised \/ display_value_secondary.raised
            THEN [raised |-> TRUE, docs |-> docs]
            ELSE IndexExisting(table, Tail(recs), failing,
                     IF record.id \in failing THEN docs
                     ELSE EsIndex(docs, Doc(get_index_name(table.name), record,
                                            IndexExistingData(table, record),
                                            display_value.text,
                                            display_value_secondary.text)))

\* elasticsearch.py 264-314, called with the arguments the endpoint queued:
\* def index_existing_records(table_id) takes one
RunIndexExistingRecords(i, failing) ==
    /\ UNCHANGED ws
    /\ i \in DOMAIN tasks
    /\ Head(tasks[i]).kind = "index_existing_records"
    /\ UNCHANGED <<schemaVars, records, linkRecords, seqs>>
    /\ LET task == Head(tasks[i])
           done(why) == /\ tasks' = PopTask(i)
                        /\ last' = [Resp("index_existing_records", 0, why)
                                    EXCEPT !.rid = task.table_id]
           raised(why) == /\ tasks' = DropBatch(i)
                          /\ last' = [Resp("index_existing_records", 500, why)
                                      EXCEPT !.rid = task.table_id]
       IN
       IF task.nargs # 1 THEN raised("type_error") /\ UNCHANGED es
       ELSE IF ~Has(tables, task.table_id) THEN done("table_not_found") /\ UNCHANGED es
       ELSE LET table == Get(tables, task.table_id)
                out == IndexExisting(table,
                                     ById({r \in records : r.table_id = table.id}),
                                     failing, es.docs)
            IN /\ es' = [es EXCEPT !.docs = out.docs]
               /\ IF out.raised THEN raised("render_raised")
                  ELSE IF \E r \in records : r.table_id = table.id /\ r.id \in failing
                  THEN done("es_error")
                  ELSE done("ok")

\* websocket.py 12-27.  A socket is an id of Sockets; open holds the sockets
\* whose client is still there, used the ids already handed out, received
\* what each socket was sent.
Sockets == 1..MaxSockets

NoSockets ==
    [active_connections |-> <<>>, open |-> {}, used |-> {},
     received |-> [s \in Sockets |-> <<>>]]

Message(task) == <<task.type, task.action, task.table_name, task.record_id>>

\* send_text raises on a socket whose client is gone, and for a message that
\* is not a str
SendRaises(connection, task) == connection \notin ws.open \/ task.payload # "str"

\* lines 25-27: for connection in self.active_connections: await
\* connection.send_text(message), with no try around the send
RECURSIVE Deliver(_, _, _)
Deliver(connections, task, received) ==
    IF connections = <<>> THEN [raised |-> FALSE, received |-> received]
    ELSE IF SendRaises(Head(connections), task)
    THEN [raised |-> TRUE, received |-> received]
    ELSE Deliver(Tail(connections), task,
                 [received EXCEPT ![Head(connections)] = Append(@, Message(task))])

\* manager.broadcast run as a background task
RunBroadcast(i) ==
    /\ i \in DOMAIN tasks
    /\ Head(tasks[i]).kind = "broadcast"
    /\ LET task == Head(tasks[i])
           out == Deliver(ws.active_connections, task, ws.received)
       IN /\ ws' = [ws EXCEPT !.received = out.received]
          /\ IF out.raised
             THEN /\ tasks' = DropBatch(i)
                  /\ last' = RecordResp("broadcast", 500, "send_raised",
                                        task.table_name, task.record_id, NoReq)
             ELSE /\ tasks' = PopTask(i)
                  /\ last' = [Resp("broadcast", 0, "ok") EXCEPT !.rid = task.record_id]
    /\ UNCHANGED <<schemaVars, records, linkRecords, seqs, es>>

\* lines 16-19, from websocket_endpoint line 66: a new socket is accepted
Connect(socket) ==
    /\ socket \notin ws.used
    /\ ws' = [ws EXCEPT !.active_connections = Append(@, socket),
                        !.open = @ \cup {socket},
                        !.used = @ \cup {socket}]
    /\ last' = [Resp("connect", 0, "ok") EXCEPT !.rid = socket]
    /\ UNCHANGED <<schemaVars, records, linkRecords, seqs, es, tasks>>

\* the client of a socket goes away; the endpoint has not yet seen it
ClientGone(socket) ==
    /\ socket \in ws.open
    /\ ws' = [ws EXCEPT !.open = @ \ {socket}]
    /\ last' = [Resp("client_gone", 0, "ok") EXCEPT !.rid = socket]
    /\ UNCHANGED <<schemaVars, records, linkRecords, seqs, es, tasks>>

\* lines 21-23, from websocket_endpoint lines 70-71: receive_text raised
\* WebSocketDisconnect
Disconnect(socket) ==
    /\ socket \in Range(ws.active_connections)
    /\ socket \notin ws.open
    /\ ws' = [ws EXCEPT !.active_connections = SelectSeq(@, LAMBDA c : c # socket)]
    /\ last' = [Resp("disconnect", 0, "ok") EXCEPT !.rid = socket]
    /\ UNCHANGED <<schemaVars, records, linkRecords, seqs, es, tasks>>

-----------------------------------------------------------------------------
(* The schema the specifications start from: Person(Name, code, employer,     *)
(* friends) and Company(), with the link table knows: Person -> Company       *)

Col(id, table_id, name, data_type) ==
    [id |-> id, table_id |-> table_id, name |-> name, data_type |-> data_type,
     is_list |-> FALSE, enum_id |-> 0, reference_table_id |-> 0,
     reference_link_table_id |-> 0, required |-> FALSE, unique |-> FALSE,
     searchable |-> FALSE]

Tbl(id, name) ==
    [id |-> id, name |-> name, display_format |-> <<>>, display_format_secondary |-> <<>>]

CrmTables == {Tbl(1, "Person"), Tbl(2, "Company")}

CrmColumns ==
    {[Col(1, 1, "Name", "string") EXCEPT !.required = TRUE, !.searchable = TRUE],
     [Col(2, 1, "code", "string") EXCEPT !.unique = TRUE],
     [Col(3, 1, "employer", "reference") EXCEPT !.reference_table_id = 2],
     [Col(4, 1, "friends", "reference") EXCEPT !.reference_link_table_id = 1,
                                               !.is_list = TRUE],
     Col(5, 1, "age", "Integer"),
     [Col(6, 1, "status", "enum") EXCEPT !.enum_id = 1]}

CrmEnums == {[id |-> 1, name |-> "stage", values |-> <<"new", "won">>]}

CrmLinkTables == {[id |-> 1, name |-> "knows", from_table_id |-> 1, to_table_id |-> 2]}

CrmLinkColumns ==
    {[id |-> 1, link_table_id |-> 1, name |-> "role", data_type |-> "string",
      required |-> FALSE, enum_id |-> 0]}

Map1(k, v) == k :> v
Map2(k1, v1, k2, v2) == (k1 :> v1) @@ (k2 :> v2)

DictItem(d) == [isdict |-> TRUE, d |-> d]
LinkList(items) == [shape |-> "list", items |-> items]
Req(data) == [data |-> data, link |-> EmptyMap]
ReqL(data, link) == [data |-> data, link |-> link]

\* the primary-key sequences after the schema above was created
CrmSeqs ==
    [record |-> 1, link_record |-> 1,
     table |-> Cardinality(CrmTables) + 1,
     column |-> Cardinality(CrmColumns) + 1,
     link_table |-> Cardinality(CrmLinkTables) + 1,
     enum |-> Cardinality(CrmEnums) + 1]

InitCommon ==
    /\ tables = CrmTables
    /\ columns = CrmColumns
    /\ enums = CrmEnums
    /\ linkTables = CrmLinkTables
    /\ linkColumns = CrmLinkColumns
    /\ linkRecords = {}
    /\ es = [docs |-> {}]
    /\ tasks = <<>>
    /\ ws = NoSockets
    /\ last = Resp("init", 0, "")

-----------------------------------------------------------------------------
(* Schema endpoints *)

SchemaBroadcast(action, name) == BroadcastTask("schema_update", action, name, 0)

\* add_task(index_existing_records, table_id, db_column.name): two positional
\* arguments for a function of one
IndexExistingTask(table_id, column_name) ==
    [NoTask EXCEPT !.kind = "index_existing_records", !.table_id = table_id,
                   !.table_name = column_name, !.nargs = 2]

\* add_task(index_existing_records, db_table.id)
ReindexTask(table_id) ==
    [NoTask EXCEPT !.kind = "index_existing_records", !.table_id = table_id,
                   !.nargs = 1]

\* the model lets each schema sequence hand out MaxNewSchemaRows more keys
CanAddSchemaRow(kind) == seqs[kind] <= CrmSeqs[kind] + MaxNewSchemaRows - 1

\* the unique index on name (models/schema.py Table.name, Column's
\* UniqueConstraint(table_id, name), models/link.py LinkTable.name,
\* models/enum.py EnumModel.name): the flush of a row whose name another row
\* of rows holds fails the commit
NameTaken_Never(rows, id, name) == FALSE

NameTaken(rows, id, name) == \E r \in rows : r.id # id /\ r.name = name

\* the outcome of a request that names a schema row
NamedResp(op, status, why, name, rid) ==
    [Resp(op, status, why) EXCEPT !.table = name, !.rid = rid]

\* schema.py 28-63; existing_table: what the SELECT of lines 35-36 found.  A
\* request served concurrently with another one may have run it before the
\* other one's commit.
CreateTableChecked(name, commit_ok, existing_table) ==
    /\ UNCHANGED ws
    /\ CanDispatch(1)
    /\ CanAddSchemaRow("table")
    /\ UNCHANGED <<columns, enums, linkTables, linkColumns, records, linkRecords, es>>
    /\ IF existing_table
       THEN /\ last' = NamedResp("create_table", 400, "exists", name, 0)
            /\ UNCHANGED <<tables, seqs, tasks>>
       ELSE IF ~commit_ok \/ NameTaken(tables, 0, name)
       THEN /\ last' = NamedResp("create_table", 400, "commit", name, 0)
            /\ UNCHANGED <<tables, seqs, tasks>>
       ELSE /\ tables' = tables \cup {Tbl(seqs.table, name)}
            /\ seqs' = [seqs EXCEPT !.table = @ + 1]
            /\ Dispatch(<<SchemaBroadcast("create_table", name)>>)
            /\ last' = NamedResp("create_table", 200, "ok", name, seqs.table)

\* the request served alone: the SELECT sees the rows the commit will meet
CreateTable(name, commit_ok) ==
    CreateTableChecked(name, commit_ok, TableByName(name) # {})

\* models/schema.py 57-93, models/link.py 15-43: the rows whose NOT NULL
\* foreign key the session sets to NULL when the table is deleted (the
\* relationships columns, records, link_tables_from, link_tables_to carry no
\* delete cascade)
OwnedByTable(table_id) ==
    [columns |-> {c \in columns : c.table_id = table_id},
     records |-> {r \in records : r.table_id = table_id},
     link_tables |-> {lt \in linkTables : \/ lt.from_table_id = table_id
                                           \/ lt.to_table_id = table_id}]

\* models/schema.py 20: Column.reference_table_id, a nullable foreign key that
\* no relationship of Table manages
ReferencedByColumns(table_id) == {c \in columns : c.reference_table_id = table_id}

\* schema.py 74-102; fk_enforced: whether the database checks foreign keys
DeleteTable(table_id, fk_enforced, commit_ok) ==
    /\ UNCHANGED ws
    /\ CanDispatch(1)
    /\ UNCHANGED <<columns, enums, linkTables, linkColumns, records, linkRecords,
                   seqs, es>>
    /\ IF ~Has(tables, table_id)
       THEN /\ last' = [Resp("delete_table", 404, "table_not_found") EXCEPT !.rid = table_id]
            /\ UNCHANGED <<tables, tasks>>
       ELSE LET table == Get(tables, table_id)
                owned == OwnedByTable(table_id)
            IN IF owned.columns # {} \/ owned.records # {} \/ owned.link_tables # {}
               THEN /\ last' = [Resp("delete_table", 400, "integrity") EXCEPT !.rid = table_id]
                    /\ UNCHANGED <<tables, tasks>>
               ELSE IF ReferencedByColumns(table_id) # {} /\ fk_enforced
               THEN /\ last' = [Resp("delete_table", 400, "integrity") EXCEPT !.rid = table_id]
                    /\ UNCHANGED <<tables, tasks>>
               ELSE IF ~commit_ok
               THEN /\ last' = [Resp("delete_table", 400, "commit") EXCEPT !.rid = table_id]
                    /\ UNCHANGED <<tables, tasks>>
               ELSE /\ tables' = tables \ {table}
                    /\ Dispatch(<<SchemaBroadcast("delete_table", table.name)>>)
                    /\ last' = [Resp("delete_table", 200, "ok") EXCEPT !.rid = table_id]

\* schema.py 154-242; column is a ColumnCreate, existing_column what the
\* SELECT for a column of that name in the table found
CreateColumnChecked(table_id, column, commit_ok, existing_column) ==
    /\ UNCHANGED ws
    /\ CanDispatch(2)
    /\ CanAddSchemaRow("column")
    /\ UNCHANGED <<tables, enums, linkTables, linkColumns, records, linkRecords, es>>
    /\ LET refused(status, why) ==
               /\ last' = NamedResp("create_column", status, why, column.name, table_id)
               /\ UNCHANGED <<columns, seqs, tasks>>
           is_reference == column.data_type = "reference"
       IN IF ~Has(tables, table_id) THEN refused(404, "table_not_found")
          ELSE IF existing_column THEN refused(400, "exists")
          ELSE IF is_reference /\ column.reference_table_id # 0
                  /\ ~Has(tables, column.reference_table_id)
          THEN refused(404, "reference_table_not_found")
          ELSE IF is_reference /\ column.reference_table_id = 0
                  /\ column.reference_link_table_id # 0
                  /\ ~Has(linkTables, column.reference_link_table_id)
          THEN refused(404, "reference_link_table_not_found")
          ELSE IF is_reference /\ column.reference_table_id = 0
                  /\ column.reference_link_table_id = 0
          THEN refused(400, "reference_unset")
          ELSE IF \/ ~commit_ok
                  \/ NameTaken({c \in columns : c.table_id = table_id}, 0, column.name)
          THEN refused(400, "commit")
          ELSE LET db_column ==
                       [column EXCEPT
                          !.id = seqs.column,
                          !.table_id = table_id,
                          !.reference_table_id =
                              IF is_reference THEN column.reference_table_id ELSE 0,
                          !.reference_link_table_id =
                              IF is_reference /\ column.reference_table_id = 0
                              THEN column.reference_link_table_id ELSE 0]
               IN /\ columns' = columns \cup {db_column}
                  /\ seqs' = [seqs EXCEPT !.column = @ + 1]
                  /\ Dispatch(<<SchemaBroadcast("create_column", Get(tables, table_id).name)>>
                              \o (IF db_column.searchable
                                  THEN <<IndexExistingTask(table_id, db_column.name)>>
                                  ELSE <<>>))
                  /\ last' = NamedResp("create_column", 200, "ok", column.name, seqs.column)

CreateColumn(table_id, column, commit_ok) ==
    CreateColumnChecked(table_id, column, commit_ok,
                        \E c \in columns : c.table_id = table_id /\ c.name = column.name)

\* link.py 31-79; existing: what the SELECT for a link table of that name found
CreateLinkTableChecked(name, from_table_id, to_table_id, commit_ok, existing) ==
    /\ UNCHANGED ws
    /\ CanDispatch(1)
    /\ CanAddSchemaRow("link_table")
    /\ UNCHANGED <<tables, columns, enums, linkColumns, records, linkRecords, es>>
    /\ IF existing
       THEN /\ last' = NamedResp("create_link_table", 400, "exists", name, 0)
            /\ UNCHANGED <<linkTables, seqs, tasks>>
       ELSE IF ~Has(tables, from_table_id) \/ ~Has(tables, to_table_id)
       THEN /\ last' = NamedResp("create_link_table", 404, "tables_not_found", name, 0)
            /\ UNCHANGED <<linkTables, seqs, tasks>>
       ELSE IF ~commit_ok \/ NameTaken(linkTables, 0, name)
       THEN /\ last' = NamedResp("create_link_table", 400, "commit", name, 0)
            /\ UNCHANGED <<linkTables, seqs, tasks>>
       ELSE /\ linkTables' = linkTables \cup
                   {[id |-> seqs.link_table, name |-> name,
                     from_table_id |-> from_table_id, to_table_id |-> to_table_id]}
            /\ seqs' = [seqs EXCEPT !.link_table = @ + 1]
            /\ Dispatch(<<SchemaBroadcast("create_link_table", name)>>)
            /\ last' = NamedResp("create_link_table", 200, "ok", name, seqs.link_table)

CreateLinkTable(name, from_table_id, to_table_id, commit_ok) ==
    CreateLinkTableChecked(name, from_table_id, to_table_id, commit_ok,
                           \E lt \in linkTables : lt.name = name)

\* link.py 117-160; the unique index on LinkTable.name fails the commit
UpdateLinkTable(link_table_id, name, from_table_id, to_table_id, commit_ok) ==
    /\ UNCHANGED ws
    /\ CanDispatch(1)
    /\ UNCHANGED <<tables, columns, enums, linkColumns, records, linkRecords, seqs, es>>
    /\ IF ~Has(linkTables, link_table_id)
       THEN /\ last' = NamedResp("update_link_table", 404, "link_table_not_found",
                                  name, link_table_id)
            /\ UNCHANGED <<linkTables, tasks>>
       ELSE IF ~Has(tables, from_table_id) \/ ~Has(tables, to_table_id)
       THEN /\ last' = NamedResp("update_link_table", 404, "tables_not_found",
                                  name, link_table_id)
            /\ UNCHANGED <<linkTables, tasks>>
       ELSE IF ~commit_ok \/ NameTaken(linkTables, link_table_id, name)
       THEN /\ last' = NamedResp("update_link_table", 400, "commit", name, link_table_id)
            /\ UNCHANGED <<linkTables, tasks>>
       ELSE LET db_link_table == Get(linkTables, link_table_id) IN
            /\ linkTables' = (linkTables \ {db_link_table}) \cup
                   {[db_link_table EXCEPT !.name = name,
                                          !.from_table_id = from_table_id,
                                          !.to_table_id = to_table_id]}
            /\ Dispatch(<<SchemaBroadcast("update_link_table", name)>>)
            /\ last' = NamedResp("update_link_table", 200, "ok", name, link_table_id)

\* schema.py 105-150; table is a TableCreate
UpdateTable(table_id, table, commit_ok) ==
    /\ UNCHANGED ws
    /\ CanDispatch(2)
    /\ UNCHANGED <<columns, enums, linkTables, linkColumns, records, linkRecords, seqs, es>>
    /\ IF ~Has(tables, table_id)
       THEN /\ last' = NamedResp("update_table", 404, "table_not_found", table.name, table_id)
            /\ UNCHANGED <<tables, tasks>>
       ELSE LET db_table == Get(tables, table_id)
                display_format_changed == db_table.display_format # table.display_format
                display_format_secondary_changed ==
                    db_table.display_format_secondary # table.display_format_secondary
            IN IF ~commit_ok \/ NameTaken(tables, table_id, table.name)
               THEN /\ last' = NamedResp("update_table", 400, "commit", table.name, table_id)
                    /\ UNCHANGED <<tables, tasks>>
               ELSE /\ tables' = (tables \ {db_table}) \cup
                          {[db_table EXCEPT
                              !.name = table.name,
                              !.display_format = table.display_format,
                              !.display_format_secondary = table.display_format_secondary]}
                    /\ Dispatch(<<SchemaBroadcast("update_table", table.name)>>
                                \o (IF display_format_changed
                                       \/ display_format_secondary_changed
                                    THEN <<ReindexTask(table_id)>>
                                    ELSE <<>>))
                    /\ last' = NamedResp("update_table", 200, "ok", table.name, table_id)

SearchableTurnedOn_AnyChange(previous_searchable, searchable) ==
    previous_searchable # searchable

\* schema.py 356: `if not previous_searchable and db_column.searchable`
SearchableTurnedOn(previous_searchable, searchable) ==
    ~previous_searchable /\ searchable

\* schema.py 301-361; column is a ColumnCreate.  The reference ids of the row
\* are not touched and no stored record is looked at.
UpdateColumn(column_id, column, commit_ok) ==
    /\ UNCHANGED ws
    /\ CanDispatch(2)
    /\ UNCHANGED <<tables, enums, linkTables, linkColumns, records, linkRecords, seqs, es>>
    /\ IF ~Has(columns, column_id)
       THEN /\ last' = NamedResp("update_column", 404, "column_not_found", column.name, column_id)
            /\ UNCHANGED <<columns, tasks>>
       ELSE LET db_column == Get(columns, column_id)
                previous_searchable == db_column.searchable
            IN IF \/ ~commit_ok
                  \/ NameTaken({c \in columns : c.table_id = db_column.table_id},
                               column_id, column.name)
               THEN /\ last' = NamedResp("update_column", 400, "commit", column.name, column_id)
                    /\ UNCHANGED <<columns, tasks>>
               ELSE /\ columns' = (columns \ {db_column}) \cup
                          {[db_column EXCEPT
                              !.name = column.name,
                              !.data_type = column.data_type,
                              !.is_list = column.is_list,
                              !.required = column.required,
                              !.unique = column.unique,
                              !.enum_id = column.enum_id,
                              !.searchable = column.searchable]}
                    /\ Dispatch(<<SchemaBroadcast("update_column",
                                                  Get(tables, db_column.table_id).name)>>
                                \o (IF SearchableTurnedOn(previous_searchable,
                                                          column.searchable)
                                    THEN <<IndexExistingTask(db_column.table_id, column.name)>>
                                    ELSE <<>>))
                    /\ last' = NamedResp("update_column", 200, "ok", column.name, column_id)

\* schema.py 269-298
DeleteColumn(column_id, commit_ok) ==
    /\ UNCHANGED ws
    /\ CanDispatch(1)
    /\ UNCHANGED <<tables, enums, linkTables, linkColumns, records, linkRecords, seqs, es>>
    /\ IF ~Has(columns, column_id)
       THEN /\ last' = NamedResp("delete_column", 404, "column_not_found", "", column_id)
            /\ UNCHANGED <<columns, tasks>>
       ELSE LET column == Get(columns, column_id) IN
            IF ~commit_ok
            THEN /\ last' = NamedResp("delete_column", 400, "commit", column.name, column_id)
                 /\ UNCHANGED <<columns, tasks>>
            ELSE /\ columns' = columns \ {column}
                 /\ Dispatch(<<SchemaBroadcast("delete_column",
                                               Get(tables, column.table_id).name)>>)
                 /\ last' = NamedResp("delete_column", 200, "ok", column.name, column_id)

\* enum.py 44-52 and 112-120: the message handed to manager.broadcast is a
\* dict, not the json.dumps string the other endpoints hand over
EnumBroadcast(action, name) == [SchemaBroadcast(action, name) EXCEPT !.payload = "dict"]

\* enum.py 15-59: the enum row is committed first, then one EnumValueModel
\* per entry of enum.values is added and committed (models/enum.py: value
\* carries no unique constraint); values is the list of the request,
\* existing_enum what the SELECT of lines 22-24 found
CreateEnumChecked(name, values, commit_ok, values_commit_ok, existing_enum) ==
    /\ UNCHANGED ws
    /\ CanDispatch(1)
    /\ CanAddSchemaRow("enum")
    /\ UNCHANGED <<tables, columns, linkTables, linkColumns, records, linkRecords, es>>
    /\ IF existing_enum
       THEN /\ last' = NamedResp("create_enum", 400, "exists", name, 0)
            /\ UNCHANGED <<enums, seqs, tasks>>
       ELSE IF ~commit_ok \/ NameTaken(enums, 0, name)
       THEN /\ last' = NamedResp("create_enum", 400, "commit", name, 0)
            /\ UNCHANGED <<enums, seqs, tasks>>
       ELSE /\ seqs' = [seqs EXCEPT !.enum = @ + 1]
            /\ IF ~values_commit_ok
               THEN /\ enums' = enums \cup
                          {[id |-> seqs.enum, name |-> name, values |-> <<>>]}
                    /\ last' = NamedResp("create_enum", 400, "values_commit", name,
                                          seqs.enum)
                    /\ UNCHANGED tasks
               ELSE /\ enums' = enums \cup
                          {[id |-> seqs.enum, name |-> name, values |-> values]}
                    /\ Dispatch(<<EnumBroadcast("create_enum", name)>>)
                    /\ last' = NamedResp("create_enum", 200, "ok", name, seqs.enum)

CreateEnum(name, values, commit_ok, values_commit_ok) ==
    CreateEnumChecked(name, values, commit_ok, values_commit_ok,
                      \E e \in enums : e.name = name)

\* enum.py 82-123
AddEnumValue(enum_id, value, commit_ok) ==
    /\ UNCHANGED ws
    /\ CanDispatch(1)
    /\ UNCHANGED <<tables, columns, linkTables, linkColumns, records, linkRecords,
                   seqs, es>>
    /\ IF ~Has(enums, enum_id)
       THEN /\ last' = [Resp("add_enum_value", 404, "enum_not_found") EXCEPT !.rid = enum_id]
            /\ UNCHANGED <<enums, tasks>>
       ELSE LET enum == Get(enums, enum_id) IN
            IF value \in Range(enum.values)
            THEN /\ last' = [Resp("add_enum_value", 400, "exists") EXCEPT !.rid = enum_id]
                 /\ UNCHANGED <<enums, tasks>>
            ELSE IF ~commit_ok
            THEN /\ last' = [Resp("add_enum_value", 400, "commit") EXCEPT !.rid = enum_id]
                 /\ UNCHANGED <<enums, tasks>>
            ELSE /\ enums' = (enums \ {enum}) \cup
                       {[enum EXCEPT !.values = Append(@, value)]}
                 /\ Dispatch(<<EnumBroadcast("add_enum_value", enum.name)>>)
                 /\ last' = [Resp("add_enum_value", 200, "ok") EXCEPT !.rid = enum_id]

\* enum.py 126-163: value_id is the position of the EnumValueModel row among
\* the enum's values
RemoveEnumValue(enum_id, value_id, commit_ok) ==
    /\ UNCHANGED ws
    /\ CanDispatch(1)
    /\ UNCHANGED <<tables, columns, linkTables, linkColumns, records, linkRecords,
                   seqs, es>>
    /\ IF ~Has(enums, enum_id) \/ value_id \notin DOMAIN Get(enums, enum_id).values
       THEN /\ last' = [Resp("remove_enum_value", 404, "value_not_found")
                        EXCEPT !.rid = enum_id]
            /\ UNCHANGED <<enums, tasks>>
       ELSE LET enum == Get(enums, enum_id) IN
            IF ~commit_ok
            THEN /\ last' = [Resp("remove_enum_value", 400, "commit") EXCEPT !.rid = enum_id]
                 /\ UNCHANGED <<enums, tasks>>
            ELSE /\ enums' = (enums \ {enum}) \cup
                       {[enum EXCEPT !.values = SubSeq(@, 1, value_id - 1)
                                                 \o SubSeq(@, value_id + 1, Len(@))]}
                 /\ Dispatch(<<EnumBroadcast("remove_enum_value", enum.name)>>)
                 /\ last' = [Resp("remove_enum_value", 200, "ok") EXCEPT !.rid = enum_id]

\* models/enum.py 22-35: the values relationship cascades the delete; columns
\* and link_columns carry no delete cascade and enum_id is nullable, so the
\* unit of work sets enum_id of the loaded children to NULL before the DELETE
EnumIdAfterDelete(enum_id, deleted_id) == IF enum_id = deleted_id THEN 0 ELSE enum_id

\* enum.py 166-195
DeleteEnum(enum_id, commit_ok) ==
    /\ UNCHANGED ws
    /\ CanDispatch(1)
    /\ UNCHANGED <<tables, linkTables, records, linkRecords, seqs, es>>
    /\ IF ~Has(enums, enum_id)
       THEN /\ last' = [Resp("delete_enum", 404, "enum_not_found") EXCEPT !.rid = enum_id]
            /\ UNCHANGED <<enums, columns, linkColumns, tasks>>
       ELSE LET enum == Get(enums, enum_id) IN
            IF ~commit_ok
            THEN /\ last' = [Resp("delete_enum", 400, "commit") EXCEPT !.rid = enum_id]
                 /\ UNCHANGED <<enums, columns, linkColumns, tasks>>
            ELSE /\ enums' = enums \ {enum}
                 /\ columns' = {[c EXCEPT !.enum_id = EnumIdAfterDelete(@, enum_id)]
                                : c \in columns}
                 /\ linkColumns' = {[c EXCEPT !.enum_id = EnumIdAfterDelete(@, enum_id)]
                                    : c \in linkColumns}
                 /\ Dispatch(<<EnumBroadcast("delete_enum", enum.name)>>)
                 /\ last' = [Resp("delete_enum", 200, "ok") EXCEPT !.rid = enum_id]

-----------------------------------------------------------------------------
(* Spec: record writes, deletes, direct link writes and the index tasks *)

RecordIds == 1..MaxRecords
LinkRecordIds == 1..MaxLinkRecords

PersonReqs ==
    {Req(Map1("Name", StrV("a"))),
     Req(Map2("Name", StrV("a"), "code", StrV("k"))),
     Req(Map1("code", StrV("k"))),
     Req(Map2("Name", StrV("a"), "employer", IntV(1))),
     ReqL(Map1("Name", StrV("b")),
          Map1("friends_link_data", LinkList(<<DictItem(Map1("to_record_id", IntV(1)))>>)))}

WriteInputs == ({"Person"} \X PersonReqs) \cup ({"Company"} \X {Req(EmptyMap)})

Init ==
    /\ InitCommon
    /\ records = {}
    /\ seqs = CrmSeqs

Next ==
    \/ \E w \in WriteInputs, c1 \in BOOLEAN, c2 \in BOOLEAN :
          CreateRecord(w[1], w[2], c1, c2)
    \/ \E w \in WriteInputs, id \in RecordIds, c1 \in BOOLEAN, c2 \in BOOLEAN :
          UpdateRecord(w[1], id, w[2], c1, c2)
    \/ \E t \in {"Person", "Company"}, id \in RecordIds, c \in BOOLEAN :
          DeleteRecord(t, id, c)
    \/ \E f \in RecordIds, t \in RecordIds, c \in BOOLEAN :
          CreateLinkRecord(1, f, t, EmptyMap, c)
    \/ \E i \in 1..MaxTasks, f \in {"none", "exists", "index"} : RunIndexRecord(i, f)
    \/ \E i \in 1..MaxTasks, ok \in BOOLEAN : RunRemoveRecordFromIndex(i, ok)
    \/ \E i \in 1..MaxTasks : RunBroadcast(i)

Spec == Init /\ [][Next]_vars

-----------------------------------------------------------------------------
(* SpecCascade: every handler that writes Record or LinkRecord rows, with   *)
(* the search engine down; SpecWrite: the validated write path alone        *)

LeanReqs ==
    {Req(Map1("Name", StrV("a"))),
     Req(Map1("code", StrV("k"))),
     ReqL(Map1("Name", StrV("b")),
          Map1("friends_link_data", LinkList(<<DictItem(Map1("to_record_id", IntV(1)))>>)))}

LeanInputs == ({"Person"} \X LeanReqs) \cup ({"Company"} \X {Req(EmptyMap)})

CascadeInputs ==
    {<<"Company", Req(EmptyMap)>>,
     <<"Person", Req(Map1("Name", StrV("b")))>>,
     <<"Person", ReqL(Map1("Name", StrV("b")),
                      Map1("friends_link_data",
                           LinkList(<<DictItem(Map1("to_record_id", IntV(1)))>>)))>>}

NextCascade ==
    \/ \E w \in CascadeInputs, c1 \in BOOLEAN, c2 \in BOOLEAN :
          CreateRecord(w[1], w[2], c1, c2)
    \/ \E w \in CascadeInputs, id \in RecordIds, c1 \in BOOLEAN, c2 \in BOOLEAN :
          UpdateRecord(w[1], id, w[2], c1, c2)
    \/ \E t \in {"Person", "Company"}, id \in RecordIds, c \in BOOLEAN :
          DeleteRecord(t, id, c)
    \/ \E f \in RecordIds, t \in RecordIds : CreateLinkRecord(1, f, t, EmptyMap, TRUE)
    \/ \E id \in LinkRecordIds, f \in RecordIds, t \in RecordIds :
          UpdateLinkRecord(id, f, t, EmptyMap, TRUE)
    \/ \E id \in LinkRecordIds : DeleteLinkRecord(id, TRUE)
    \/ \E i \in 1..MaxTasks : RunIndexRecord(i, "exists")
    \/ \E i \in 1..MaxTasks : RunRemoveRecordFromIndex(i, FALSE)
    \/ \E i \in 1..MaxTasks : RunBroadcast(i)

SpecCascade == Init /\ [][NextCascade]_vars

NextWrite ==
    \/ \E w \in LeanInputs, c1 \in BOOLEAN, c2 \in BOOLEAN :
          CreateRecord(w[1], w[2], c1, c2)
    \/ \E w \in LeanInputs, id \in RecordIds, c1 \in BOOLEAN, c2 \in BOOLEAN :
          UpdateRecord(w[1], id, w[2], c1, c2)
    \/ \E i \in 1..MaxTasks, f \in {"none", "exists", "index"} : RunIndexRecord(i, f)
    \/ \E i \in 1..MaxTasks : RunBroadcast(i)

SpecWrite == Init /\ [][NextWrite]_vars

-----------------------------------------------------------------------------
(* Properties of record deletion and of failed validation *)

LinkEndpointsExist ==
    \A lr \in linkRecords :
        Has(records, lr.from_record_id) /\ Has(records, lr.to_record_id)

DeleteRecordStep ==
    /\ (last'.op = "delete_record" /\ last'.why = "ok") =>
          /\ linkRecords' = {lr \in linkRecords : /\ lr.from_record_id # last'.rid
                                                  /\ lr.to_record_id # last'.rid}
          /\ records' = {r \in records : r.id # last'.rid}
    /\ (last'.op = "delete_record" /\ last'.why = "commit") =>
          UNCHANGED <<records, linkRecords>>

\* C7: deleting a record removes, in the same commit, every LinkRecord in
\* which it is the from- or the to-endpoint; a failed commit removes nothing;
\* and so in every state each LinkRecord's two endpoints are stored records.
C7_DeleteRecordCascades == []LinkEndpointsExist /\ [][DeleteRecordStep]_vars

\* a record that was the to-endpoint of a link has just been deleted
C7_Witness ==
    /\ last.op = "delete_record" /\ last.why = "ok"
    /\ \E lr \in last.links : lr.to_record_id = last.rid

\* the write named by last' carries a payload that validation rejects in the
\* state the request found
RejectedWrite ==
    /\ last'.op \in {"create_record", "update_record"}
    /\ TableByName(last'.table) # {}
    /\ ValidationErrors(CHOOSE t \in TableByName(last'.table) : TRUE,
                        last'.req.data, ExtractLinkData(last'.req)) # <<>>

\* C9: a create or update whose payload fails validation answers 4xx and
\* leaves the records, the link records and the index as they were, and
\* dispatches no background task.
C9_FailedValidationNotApplied ==
    [][RejectedWrite =>
          /\ last'.status \in 400..499
          /\ UNCHANGED <<records, linkRecords, es, tasks>>]_vars

\* an update of a stored record has just been refused by validation
C9_Witness ==
    /\ last.op = "update_record" /\ last.why = "validation"
    /\ last.status = 400 /\ last.errors # <<>>
    /\ \E r \in records : r.id = last.rid

-----------------------------------------------------------------------------
(* SpecLinks: record writes carrying relationship payloads *)

FriendsReq(items) ==
    ReqL(Map1("Name", StrV("b")), Map1("friends_link_data", LinkList(items)))

LinkTo(id) == DictItem(Map1("to_record_id", IntV(id)))
LinkToAs(id, role) == DictItem(Map2("to_record_id", IntV(id), "role", StrV(role)))

LinkReqs ==
    {FriendsReq(<<>>),
     FriendsReq(<<LinkTo(1)>>),
     FriendsReq(<<LinkTo(1), LinkTo(1)>>),
     FriendsReq(<<LinkToAs(1, "x"), LinkToAs(1, "y")>>),
     FriendsReq(<<LinkTo(1), LinkTo(2)>>)}

LinkInputs == ({"Person"} \X LinkReqs) \cup ({"Company"} \X {Req(EmptyMap)})

NextLinks ==
    \/ \E w \in LinkInputs, c1 \in BOOLEAN, c2 \in BOOLEAN :
          CreateRecord(w[1], w[2], c1, c2)
    \/ \E w \in LinkInputs, id \in RecordIds, c1 \in BOOLEAN, c2 \in BOOLEAN :
          UpdateRecord(w[1], id, w[2], c1, c2)
    \/ \E i \in 1..MaxTasks, f \in {"exists", "index"} : RunIndexRecord(i, f)
    \/ \E i \in 1..MaxTasks : RunBroadcast(i)

SpecLinks == Init /\ [][NextLinks]_vars

-----------------------------------------------------------------------------
(* Properties of the record write path *)

WriteOps == {"create_record", "update_record"}

RefIds(v) == IF v.t = "list" THEN {v.xs[i].n : i \in DOMAIN v.xs} ELSE {v.n}

PlainReferenceColumns(table_id) ==
    {c \in columns : /\ c.table_id = table_id
                     /\ Lower(c.data_type) = "reference"
                     /\ c.reference_table_id # 0}

\* C2: right after a successful create_record or update_record, every id the
\* written record stores under a reference column bound to a plain table
\* identifies an existing record of that column's target table.
C2_ReferencesResolve ==
    (last.op \in WriteOps /\ last.status = 200) =>
        LET r == Get(records, last.rid) IN
        \A c \in PlainReferenceColumns(r.table_id) :
            c.name \in DOMAIN r.data =>
                \A id \in RefIds(r.data[c.name]) :
                    \E x \in records : x.id = id /\ x.table_id = c.reference_table_id

UniqueScalarColumns(table_id) ==
    {c \in columns : c.table_id = table_id /\ c.unique /\ ~c.is_list}

\* another record of the table holds the value the payload gives a unique column
UniqueConflict(table, rid, data) ==
    \E c \in UniqueScalarColumns(table.id) :
        /\ c.name \in DOMAIN data
        /\ \E r \in records : /\ r.table_id = table.id
                              /\ r.id # rid
                              /\ c.name \in DOMAIN r.data
                              /\ r.data[c.name] = data[c.name]

NoSharedUniqueValue ==
    \A c \in columns : (c.unique /\ ~c.is_list) =>
        \A r1, r2 \in records :
            (/\ r1.id # r2.id
             /\ r1.table_id = c.table_id /\ r2.table_id = c.table_id
             /\ c.name \in DOMAIN r1.data /\ c.name \in DOMAIN r2.data)
            => r1.data[c.name] # r2.data[c.name]

\* C3: a create or update that gives a unique scalar column a value another
\* record of the same table holds is rejected and writes nothing (the record
\* being updated is not counted against itself), so no two records of a table
\* ever share a value in a unique column.
C3_UniqueEnforced ==
    /\ []NoSharedUniqueValue
    /\ [][(/\ last'.op \in WriteOps
           /\ TableByName(last'.table) # {}
           /\ UniqueConflict(CHOOSE t \in TableByName(last'.table) : TRUE,
                             last'.rid, last'.req.data))
          => (last'.status \in 400..499 /\ UNCHANGED records)]_vars

\* the ids of the link table's edges that leave record rid, in the given rows
EdgeTargets(links, link_table_id, rid) ==
    {lr.to_record_id : lr \in ExistingLinks(links, link_table_id, rid)}

\* what C4 asks of one key of the relationship payload, across one write step
ExactDifference(link_table_id, rid, items) ==
    LET E == EdgeTargets(linkRecords, link_table_id, rid)
        D == {ToRecordId(items[i]) : i \in DOMAIN items}
        before == ExistingLinks(linkRecords, link_table_id, rid)
        after == ExistingLinks(linkRecords', link_table_id, rid)
        added == {lr \in after : ~Has(linkRecords, lr.id)}
    IN /\ \A id \in D \ E : Cardinality({lr \in added : lr.to_record_id = id}) = 1
       /\ \A lr \in added : lr.to_record_id \in D \ E
       /\ \A lr \in before : (lr.to_record_id \in E \ D) <=> ~Has(linkRecords', lr.id)
       /\ \A lr \in before :
             (\A i \in DOMAIN items : ToRecordId(items[i]) = lr.to_record_id
                                       => AdditionalData(items[i]) = lr.data)
             => (lr.to_record_id \in D => lr \in linkRecords')
       /\ EdgeTargets(linkRecords', link_table_id, rid) = D

\* the step is a successful write of record last'.rid carrying link data
LinkWriteStep ==
    /\ last'.op \in WriteOps /\ last'.status = 200
    /\ DOMAIN last'.req.link # {}

\* C4: a successful write reconciles each relationship key as an exact set
\* difference: one inserted LinkRecord per id of D \ E, the edges of E \ D
\* deleted, kept edges with equal attributes untouched, and afterwards the
\* record's edge targets are exactly D.
C4_ExactSetDifference ==
    [][LinkWriteStep =>
          LET table == CHOOSE t \in TableByName(last'.table) : TRUE
              link_data == LinkDataAfterValidation(table, last'.req.data,
                                                   ExtractLinkData(last'.req))
          IN \A key \in DOMAIN link_data :
                \A c \in ColumnNamed(ColumnsOf(table.id), key) :
                    ExactDifference(c.reference_link_table_id, last'.rid,
                                    link_data[key].items)]_vars

NoDuplicateEdges ==
    \A a, b \in linkRecords :
        (/\ a.link_table_id = b.link_table_id
         /\ a.from_record_id = b.from_record_id
         /\ a.to_record_id = b.to_record_id) => a.id = b.id

\* the step repeats, on the same record, the relationship payload that the
\* previous successful write carried
RepeatedLinkWrite ==
    /\ last.op \in WriteOps /\ last.status = 200
    /\ DOMAIN last.req.link # {}
    /\ last'.op = "update_record" /\ last'.status = 200
    /\ last'.rid = last.rid /\ last'.req = last.req

\* C5: running the reconciliation again with the identical payload changes
\* no LinkRecord, and no two edges share (link table, from record, to record).
C5_ReconcileIdempotent ==
    /\ []NoDuplicateEdges
    /\ [][RepeatedLinkWrite => UNCHANGED linkRecords]_vars

SearchableFieldNames(table_id) ==
    {Lower(c.name) : c \in {x \in columns : x.table_id = table_id /\ x.searchable}}

\* C10: every document in the index carries only lower-cased names of
\* searchable columns of its table, and a document that index_record wrote
\* for the stored data of a record is the document index_existing_records
\* writes for that record.
C10_OnlySearchableIndexed ==
    \A d \in es.docs :
        /\ DOMAIN d.data \subseteq SearchableFieldNames(d.table_id)
        /\ (/\ Has(records, d.id) /\ Has(tables, d.table_id)
            /\ d.data = IndexRecordData(Get(records, d.id).data))
           => d.data = IndexExistingData(Get(tables, d.table_id), Get(records, d.id))

-----------------------------------------------------------------------------
(* SpecSchema: schema changes interleaved with record and link writes *)

SchemaWriteInputs ==
    {<<"Company", Req(EmptyMap)>>,
     <<"Person", FriendsReq(<<LinkTo(1)>>)>>,
     <<"Company", ReqL(EmptyMap, Map1("friends_link_data", LinkList(<<LinkTo(1)>>)))>>}

NewColumns ==
    {<<2, [Col(0, 0, "friends", "reference") EXCEPT !.reference_link_table_id = 1,
                                                   !.is_list = TRUE]>>,
     <<1, [Col(0, 0, "deal", "reference") EXCEPT !.reference_table_id = 3]>>}

TableIds == 1..(Cardinality(CrmTables) + MaxNewSchemaRows)
LinkTableIds == 1..(Cardinality(CrmLinkTables) + MaxNewSchemaRows)

NextSchema ==
    \/ \E c \in BOOLEAN : CreateTable("Deal", c)
    \/ \E id \in TableIds, fk \in BOOLEAN, c \in BOOLEAN : DeleteTable(id, fk, c)
    \/ \E nc \in NewColumns, c \in BOOLEAN : CreateColumn(nc[1], nc[2], c)
    \/ \E c \in BOOLEAN : CreateLinkTable("owns", 2, 1, c)
    \/ \E ft \in {<<1, 2>>, <<2, 1>>}, c \in BOOLEAN :
          UpdateLinkTable(1, "knows", ft[1], ft[2], c)
    \/ \E w \in SchemaWriteInputs, c1 \in BOOLEAN, c2 \in BOOLEAN :
          CreateRecord(w[1], w[2], c1, c2)
    \/ \E w \in SchemaWriteInputs, id \in RecordIds, c1 \in BOOLEAN, c2 \in BOOLEAN :
          UpdateRecord(w[1], id, w[2], c1, c2)
    \/ \E lt \in LinkTableIds, f \in RecordIds, t \in RecordIds, c \in BOOLEAN :
          CreateLinkRecord(lt, f, t, EmptyMap, c)
    \/ \E id \in LinkRecordIds, f \in RecordIds, t \in RecordIds, c \in BOOLEAN :
          UpdateLinkRecord(id, f, t, EmptyMap, c)
    \/ \E i \in 1..MaxTasks : RunIndexRecord(i, "index")
    \/ \E i \in 1..MaxTasks : RunBroadcast(i)

SpecSchema == Init /\ [][NextSchema]_vars

\* the step is a delete_table_endpoint call on a stored table whose commit
\* the database did not fail for a reason of its own
DeleteTableStep ==
    /\ last'.op = "delete_table"
    /\ Has(tables, last'.rid)
    /\ last'.why # "commit"

\* C6: deleting a stored table succeeds whatever columns and records it owns,
\* and afterwards neither the table nor any Column or Record with its
\* table_id is stored.
C6_DeleteTableCascades ==
    [][DeleteTableStep =>
          /\ last'.status = 200
          /\ ~Has(tables', last'.rid)
          /\ \A c \in columns' : c.table_id # last'.rid
          /\ \A r \in records' : r.table_id # last'.rid]_vars

\* C8: each LinkRecord's from_record is a record of the from_table of its
\* LinkTable and its to_record a record of the to_table.
C8_LinkEndpointsInDeclaredTables ==
    \A lr \in linkRecords :
        Has(linkTables, lr.link_table_id) =>
            LET lt == Get(linkTables, lr.link_table_id) IN
            /\ \E r \in records : r.id = lr.from_record_id /\ r.table_id = lt.from_table_id
            /\ \E r \in records : r.id = lr.to_record_id /\ r.table_id = lt.to_table_id

-----------------------------------------------------------------------------
(* SpecValidate: validate_record_data on a stored database *)

\* one company and one person, as two create_record calls leave them
StoredRecords ==
    {[id |-> 1, table_id |-> 2, data |-> EmptyMap],
     [id |-> 2, table_id |-> 1,
      data |-> Map2("Name", StrV("a"), "code", StrV("k"))]}

FieldOptions ==
    [Name |-> {StrV("a"), IntV(5)},
     age |-> {IntV(3), StrV("x")},
     status |-> {StrV("new"), StrV("bad")},
     employer |-> {IntV(1), IntV(2), IntV(9)},
     code |-> {StrV("k"), StrV("z")}]

Payloads ==
    UNION {{f \in [K -> UNION Range(FieldOptions)] : \A k \in K : f[k] \in FieldOptions[k]}
           : K \in SUBSET DOMAIN FieldOptions}

LinkPayloads ==
    {EmptyMap,
     Map1("friends_link_data", LinkList(<<LinkTo(1)>>)),
     Map1("friends_link_data", LinkList(<<LinkTo(9)>>))}

\* records.py 31-278, called on its own: the error list it collects
Validate(table_name, req) ==
    /\ UNCHANGED ws
    /\ TableByName(table_name) # {}
    /\ LET table == CHOOSE t \in TableByName(table_name) : TRUE
           errors == ValidationErrors(table, req.data, ExtractLinkData(req))
       IN last' = [RecordResp("validate_record_data",
                              IF ValidationPasses(errors) THEN 200 ELSE 400,
                              IF ValidationPasses(errors) THEN "ok" ELSE "validation",
                              table_name, 0, req)
                   EXCEPT !.errors = errors]
    /\ UNCHANGED <<schemaVars, records, linkRecords, seqs, es, tasks>>

InitValidate ==
    /\ InitCommon
    /\ records = StoredRecords
    /\ seqs = [CrmSeqs EXCEPT !.record = Cardinality(StoredRecords) + 1]

NextValidate ==
    \E data \in Payloads, link \in LinkPayloads : Validate("Person", ReqL(data, link))

SpecValidate == InitValidate /\ [][NextValidate]_vars

\* the value has the type the column declares
HasDeclaredType(column, v) ==
    CASE Lower(column.data_type) = "integer" -> v.t = "int"
      [] Lower(column.data_type) \in {"float", "currency"} -> v.t \in {"int", "float"}
      [] Lower(column.data_type) = "boolean" -> v.t = "bool"
      [] Lower(column.data_type) = "reference" ->
            IF column.is_list THEN v.t = "list" ELSE v.t = "int"
      [] OTHER -> v.t = "str"

\* the one defect, if any, of a supplied field: wrong type, else a value
\* outside the enum, else a reference to no record of the target table, else
\* a value another record holds in a unique column
FieldDefect(table, column, v) ==
    \/ ~HasDeclaredType(column, v)
    \/ /\ Lower(column.data_type) \in {"enum", "picklist"}
       /\ Has(enums, column.enum_id)
       /\ v.s \notin Range(Get(enums, column.enum_id).values)
    \/ /\ column \in PlainReferenceColumns(table.id)
       /\ \E id \in RefIds(v) :
             ~\E x \in records : x.id = id /\ x.table_id = column.reference_table_id
    \/ /\ column \in UniqueScalarColumns(table.id)
       /\ \E r \in records : /\ r.table_id = table.id
                             /\ column.name \in DOMAIN r.data
                             /\ r.data[column.name] = v

\* the independent defects of a payload for a new record of the table
Defects(table, req) ==
    LET cols == {c \in columns : c.table_id = table.id}
        link_data == ExtractLinkData(req)
        missing == {c \in cols : c.required /\ c.name \notin DOMAIN req.data}
        faulty == {c \in cols : /\ c.name \in DOMAIN req.data
                                /\ FieldDefect(table, c, req.data[c.name])}
        dangling == {<<c, i>> \in cols \X (1..2) :
                        /\ c.name \in DOMAIN link_data
                        /\ Has(linkTables, c.reference_link_table_id)
                        /\ i \in DOMAIN link_data[c.name].items
                        /\ ~\E x \in records :
                              /\ x.id = ToRecordId(link_data[c.name].items[i])
                              /\ x.table_id =
                                   Get(linkTables, c.reference_link_table_id).to_table_id}
    IN Cardinality(missing) + Cardinality(faulty) + Cardinality(dangling)

\* C1: validate_record_data reports exactly one error per defect of the
\* payload: a missing required field, a wrong-typed value, a value outside
\* the enum, a reference id that resolves to no record, a duplicate value in
\* a unique column.
C1_OneErrorPerDefect ==
    last.op = "validate_record_data" =>
        Len(last.errors) = Defects(CHOOSE t \in TableByName(last.table) : TRUE, last.req)

-----------------------------------------------------------------------------
(* Display rendering on its own: tables A(b -> B, bs -> [B]) and            *)
(* B(name, a -> A), their templates and up to MaxRenderRecords records from *)
(* what create_table, create_column and create_record accept               *)

RenderTables ==
    {[id |-> 1, name |-> "A", display_format |-> f.a, display_format_secondary |-> f.a2] :
        f \in [a : {<<>>, <<Field("b")>>, <<Field("bs")>>, <<Lit("to "), Field("b")>>},
               a2 : {<<>>, <<Field("b")>>}]}

RenderTablesB ==
    {[id |-> 2, name |-> "B", display_format |-> f.b, display_format_secondary |-> f.b2] :
        f \in [b : {<<>>, <<Field("name")>>, <<Field("name"), Lit(" of "), Field("a")>>},
               b2 : {<<>>, <<Field("name")>>}]}

RenderColumns ==
    {[Col(1, 1, "b", "reference") EXCEPT !.reference_table_id = 2],
     [Col(2, 1, "bs", "reference") EXCEPT !.reference_table_id = 2, !.is_list = TRUE],
     Col(3, 2, "name", "string"),
     [Col(4, 2, "a", "reference") EXCEPT !.reference_table_id = 1],
     [Col(5, 1, "ls", "reference") EXCEPT !.reference_link_table_id = 1,
                                          !.is_list = TRUE]}

\* the link table behind A.ls, and the edges record 1 may have in it
RenderLinkTables == {[id |-> 1, name |-> "ab", from_table_id |-> 1, to_table_id |-> 2]}

RenderLinks ==
    {{}, {[id |-> 1, link_table_id |-> 1, from_record_id |-> 1, to_record_id |-> 2,
           data |-> EmptyMap]}}

\* record 1 belongs to A, records 2 and 3 to B
RenderDataA ==
    {Map1("b", IntV(i)) : i \in 1..MaxRenderRecords}
    \cup {Map1("bs", ListV(xs)) : xs \in {<<>>, <<IntItem(2)>>, <<IntItem(3), IntItem(2)>>,
                                          <<IntItem(2), IntItem(1)>>}}
    \cup {Map1("ls", ListV(<<>>))}

RenderDataB ==
    {Map1("name", StrV("Acme")), Map1("name", StrV("Bolt")),
     Map2("name", StrV("Acme"), "a", IntV(1))}

InitRender ==
    /\ \E ta \in RenderTables, tb \in RenderTablesB : tables = {ta, tb}
    /\ columns = RenderColumns
    /\ enums = {}
    /\ linkTables = RenderLinkTables
    /\ linkColumns = {}
    /\ \E n \in 2..MaxRenderRecords :
          \E da \in RenderDataA, db \in [2..n -> RenderDataB] :
             /\ records = {[id |-> 1, table_id |-> 1, data |-> da]}
                             \cup {[id |-> i, table_id |-> 2, data |-> db[i]] : i \in 2..n}
             /\ linkRecords \in (IF "ls" \in DOMAIN da THEN RenderLinks ELSE {{}})
    /\ seqs = [CrmSeqs EXCEPT !.record = Cardinality(records) + 1,
                              !.column = Cardinality(RenderColumns) + 1,
                              !.link_table = Cardinality(RenderLinkTables) + 1,
                              !.link_record = 2]
    /\ es = [docs |-> {}]
    /\ tasks = <<>>
    /\ ws = NoSockets
    /\ last = Resp("init", 0, "")

\* one call of generate_display_value or generate_display_value_secondary
RenderDisplayValue(record_id, secondary) ==
    /\ UNCHANGED ws
    /\ Has(records, record_id)
    /\ LET record == Get(records, record_id)
           table == Get(tables, record.table_id)
           out == IF secondary THEN generate_display_value_secondary(table, record)
                  ELSE generate_display_value(table, record)
       IN last' = [Resp(IF secondary THEN "generate_display_value_secondary"
                        ELSE "generate_display_value",
                        0, IF out.raised THEN "raised" ELSE "ok")
                   EXCEPT !.rid = record_id, !.text = out.text, !.depth = out.depth]
    /\ UNCHANGED <<schemaVars, records, linkRecords, seqs, es, tasks>>

NextRender == \E record_id \in 1..MaxRenderRecords, secondary \in BOOLEAN :
                  RenderDisplayValue(record_id, secondary)

SpecRender == InitRender /\ [][NextRender]_vars

\* the rendering just returned, and what it was called on
RenderedRecord == Get(records, last.rid)
RenderedTable == Get(tables, RenderedRecord.table_id)
DisplayOf(record_id) ==
    generate_display_value(Get(tables, Get(records, record_id).table_id),
                           Get(records, record_id))

\* C19: display rendering resolves plain-table references recursively.  When
\* generate_display_value returns for a record whose table's template is
\* exactly one reference field, the result is the referenced record's own
\* rendered display value; for an is_list field it is the rendered values of
\* the referenced records that exist, in list order, joined with ", ".  In
\* particular A with format {b} pointing at the B record named "Acme", B's
\* format being {name}, renders as "Acme".
C19_ReferencesRenderRecursively ==
    (last.op = "generate_display_value" /\ last.why = "ok") =>
        LET data == RenderedRecord.data IN
        /\ (RenderedTable.display_format = <<Field("b")>> /\ "b" \in DOMAIN data
              /\ Has(records, data["b"].n))
            => /\ last.text = DisplayOf(data["b"].n).text
               /\ LET target == Get(records, data["b"].n) IN
                  (/\ Get(tables, target.table_id).display_format = <<Field("name")>>
                   /\ target.data["name"] = StrV("Acme"))
                  => last.text = <<"Acme">>
        /\ (RenderedTable.display_format = <<Field("bs")>> /\ "bs" \in DOMAIN data)
            => LET ids == SelectSeq([i \in DOMAIN data["bs"].xs |-> data["bs"].xs[i].n],
                                    LAMBDA id : Has(records, id))
               IN last.text =
                    CASE Len(ids) = 0 -> <<>>
                      [] Len(ids) = 1 -> DisplayOf(ids[1]).text
                      [] OTHER -> DisplayOf(ids[1]).text \o <<", ">>
                                      \o DisplayOf(ids[2]).text

C19_Witness ==
    /\ last.op = "generate_display_value"
    /\ last.why = "ok"
    /\ RenderedTable.display_format = <<Field("b")>>
    /\ "b" \in DOMAIN RenderedRecord.data
    /\ Has(records, RenderedRecord.data["b"].n)
    /\ Get(tables, 2).display_format = <<Field("name")>>
    /\ last.text = <<"Acme">>

\* C20: for a table that defines no display template, rendering a record
\* yields the empty string for the primary and the secondary display value
\* and never raises, whatever its reference fields hold.
C20_NoTemplateRendersEmpty ==
    (/\ last.op \in {"generate_display_value", "generate_display_value_secondary"}
     /\ RenderedTable.display_format = <<>>
     /\ RenderedTable.display_format_secondary = <<>>)
    => (last.why = "ok" /\ last.text = <<>>)

-----------------------------------------------------------------------------
(* SpecIndex: record writes and deletes and the index tasks they dispatch,  *)
(* with the search engine failing at will in the calls whose exceptions the *)
(* tasks catch                                                              *)

IndexInputs ==
    {<<"Person", Req(Map1("Name", StrV("a")))>>,
     <<"Person", Req(Map2("Name", StrV("b"), "code", StrV("k")))>>}

NextIndex ==
    \/ \E w \in IndexInputs : CreateRecord(w[1], w[2], TRUE, TRUE)
    \/ \E w \in IndexInputs, id \in RecordIds : UpdateRecord(w[1], id, w[2], TRUE, TRUE)
    \/ \E id \in RecordIds : DeleteRecord("Person", id, TRUE)
    \/ \E i \in 1..MaxTasks, f \in {"none", "index"} : RunIndexRecord(i, f)
    \/ \E i \in 1..MaxTasks, ok \in BOOLEAN : RunRemoveRecordFromIndex(i, ok)
    \/ \E i \in 1..MaxTasks : RunBroadcast(i)

SpecIndex == Init /\ [][NextIndex]_vars

\* the documents of record id in the index named after table_name
DocsOf(docs, table_name, id) ==
    {d \in docs : d.index = get_index_name(table_name) /\ d.id = id}

\* an exact-value query on field key of the index finds document d
Finds(d, key, value) ==
    /\ Lower(key) \in DOMAIN d.data
    /\ d.data[Lower(key)] = (IF IsList(value) THEN JoinV(value.xs) ELSE value)

UpsertRoundTrip ==
    (last.op = "index_record" /\ last.why = "ok") =>
        /\ Cardinality(DocsOf(es.docs, last.table, last.rid)) = 1
        /\ \A d \in DocsOf(es.docs, last.table, last.rid) :
              \A c \in columns :
                 (/\ c.table_id = d.table_id /\ c.searchable
                  /\ c.name \in DOMAIN last.req.data)
                 => Finds(d, c.name, last.req.data[c.name])

RemoveRoundTrip ==
    (last.op = "remove_record_from_index" /\ last.why \in {"ok", "not_found"}) =>
        DocsOf(es.docs, last.table, last.rid) = {}

\* remove_record_from_index ran, the engine answered, the id was not indexed
RemoveOfNeverIndexed ==
    /\ last'.op = "remove_record_from_index"
    /\ last'.why # "es_error"
    /\ tasks' # tasks
    /\ DocsOf(es.docs, last'.table, last'.rid) = {}

\* C12: index document round trip.  After index_record has completed its
\* upsert of record r the index of the table holds exactly one document with
\* id r, found by the value of each searchable field the upsert carried;
\* after remove_record_from_index has completed no document with id r is in
\* that index; and a remove of an id that index does not hold ends without an
\* error and leaves the index as it was.
C12_IndexRoundTrip ==
    /\ []UpsertRoundTrip
    /\ []RemoveRoundTrip
    /\ [][RemoveOfNeverIndexed => (last'.status = 0 /\ es' = es)]_vars

C12_Witness ==
    /\ last.op = "remove_record_from_index"
    /\ last.why = "ok"
    /\ es.docs = {}
    /\ records = {}

-----------------------------------------------------------------------------
(* SpecReindex: table and column updates and the bulk reindex they dispatch *)

ReindexInputs ==
    {<<"Person", Req(Map1("Name", StrV("a")))>>,
     <<"Person", Req(Map2("Name", StrV("b"), "code", StrV("k")))>>}

\* TableCreate bodies sent to PUT /tables/1/
TableUpdates ==
    {[name |-> "Person", display_format |-> <<>>, display_format_secondary |-> <<>>],
     [name |-> "Person", display_format |-> <<Field("Name")>>,
      display_format_secondary |-> <<>>],
     [name |-> "Client", display_format |-> <<Field("Name")>>,
      display_format_secondary |-> <<Lit("#"), Field("code")>>]}

\* ColumnCreate bodies sent to PUT /columns/2/ (code) and POST /tables/1/columns/
CodeColumn(searchable) ==
    [Col(0, 0, "code", "string") EXCEPT !.unique = TRUE, !.searchable = searchable]
NickColumn == [Col(0, 0, "nick", "string") EXCEPT !.searchable = TRUE]
CodeColumns == {CodeColumn(searchable) : searchable \in BOOLEAN}

NextReindex ==
    \/ \E w \in ReindexInputs, name \in {"Person", "Client"} :
          CreateRecord(name, w[2], TRUE, TRUE)
    \/ \E t \in TableUpdates, commit_ok \in BOOLEAN : UpdateTable(1, t, commit_ok)
    \/ \E i \in 1..MaxTasks : RunIndexRecord(i, "none")
    \/ \E i \in 1..MaxTasks, failing \in {{}, {1}} : RunIndexExistingRecords(i, failing)
    \/ \E i \in 1..MaxTasks : RunBroadcast(i)

SpecReindex == Init /\ [][NextReindex]_vars

\* SpecSearchable: the searchable flag of code is switched, a searchable
\* column is added, records are written and the tasks run
NextSearchable ==
    \/ \E w \in ReindexInputs : CreateRecord(w[1], w[2], TRUE, TRUE)
    \/ \E column \in CodeColumns, commit_ok \in BOOLEAN :
          UpdateColumn(2, column, commit_ok)
    \/ CreateColumn(1, NickColumn, TRUE)
    \/ \E i \in 1..MaxTasks, f \in {"none", "index"} : RunIndexRecord(i, f)
    \/ \E i \in 1..MaxTasks : RunIndexExistingRecords(i, {})
    \/ \E i \in 1..MaxTasks : RunBroadcast(i)

SpecSearchable == Init /\ [][NextSearchable]_vars

\* the bulk reindex of table last.rid has just ended
ReindexedTable == Get(tables, last.rid)
ReindexedRecords == {r \in records : r.table_id = last.rid}

\* C13: when a column's searchable flag flips from false to true, or a
\* searchable column is created, the bulk reindex that is dispatched runs to
\* completion, and afterwards every record of the table that holds a value for
\* a searchable column has that value in its search document.
C13_SearchableFlipReindexes ==
    (last.op = "index_existing_records" /\ last.why # "es_error") =>
        /\ last.status = 0
        /\ \A r \in ReindexedRecords :
              \A c \in columns :
                 (c.table_id = last.rid /\ c.searchable /\ c.name \in DOMAIN r.data)
                 => \E d \in DocsOf(es.docs, ReindexedTable.name, r.id) :
                       Finds(d, c.name, r.data[c.name])

\* a successful update_table that changed a template / that changed none
TemplatesChanged ==
    /\ last'.op = "update_table" /\ last'.status = 200
    /\ \E old \in tables, new \in tables' :
          /\ old.id = last'.rid /\ new.id = last'.rid
          /\ \/ old.display_format # new.display_format
             \/ old.display_format_secondary # new.display_format_secondary
TemplatesKept ==
    /\ last'.op = "update_table" /\ last'.status = 200
    /\ \E old \in tables, new \in tables' :
          /\ old.id = last'.rid /\ new.id = last'.rid
          /\ old.display_format = new.display_format
          /\ old.display_format_secondary = new.display_format_secondary

\* the tasks of the batch the step queued
QueuedKinds ==
    IF Len(tasks') = Len(tasks) + 1
    THEN {<<t.kind, t.table_id, t.nargs>> : t \in Range(tasks'[Len(tasks')])}
    ELSE {}

\* every record of the reindexed table has one document in the table's index,
\* its display values rendered from the templates the table now has
DisplayValuesCurrent ==
    (last.op = "index_existing_records" /\ last.why = "ok") =>
        \A r \in ReindexedRecords :
           /\ Cardinality(DocsOf(es.docs, ReindexedTable.name, r.id)) = 1
           /\ \A d \in DocsOf(es.docs, ReindexedTable.name, r.id) :
                 /\ d.display_value =
                       Format(ReindexedTable.display_format, r.data)
                 /\ d.display_value_secondary =
                       Format(ReindexedTable.display_format_secondary, r.data)

\* C14: an update_table that changes display_format or
\* display_format_secondary queues, after its commit, one bulk reindex of that
\* table, and one that changes neither queues none; once the bulk reindex has
\* completed, every record of the table has a search document whose
\* display_value and display_value_secondary are rendered with the table's
\* new templates.
C14_TemplateChangeReindexes ==
    /\ [][TemplatesChanged =>
            <<"index_existing_records", last'.rid, 1>> \in QueuedKinds]_vars
    /\ [][TemplatesKept =>
            ~\E k \in QueuedKinds : k[1] = "index_existing_records"]_vars
    /\ []DisplayValuesCurrent

C14_Witness ==
    /\ last.op = "index_existing_records"
    /\ last.why = "ok"
    /\ ReindexedTable.display_format = <<Field("Name")>>
    /\ \E r \in ReindexedRecords :
          \E d \in DocsOf(es.docs, ReindexedTable.name, r.id) :
             d.display_value = <<"a">>

-----------------------------------------------------------------------------
(* Isolation of search-engine failures *)

IndexTaskOps == {"index_record", "remove_record_from_index", "index_existing_records"}

\* C17: search-engine failures are isolated.  Whatever call of the search
\* engine fails inside index_record (the index-existence check included),
\* remove_record_from_index or index_existing_records, the task returns
\* without raising, and the record committed by the originating write stays
\* as committed.
C17_SearchEngineFailuresIsolated ==
    (last.op \in IndexTaskOps) =>
        /\ last.why # "es_raised"
        /\ (last.op = "index_record" /\ last.why = "es_error")
              => Has(records, last.rid)

-----------------------------------------------------------------------------
(* SpecConcurrent: writes to Person whose background batches overlap.  The   *)
(* batches of different requests run independently of each other; the       *)
(* search engine never fails and every commit succeeds.                     *)

ConcurrentReqs == {Req(Map1("Name", StrV("a"))), Req(Map1("Name", StrV("b")))}

\* an update that arrives while up to MaxConcurrentTasks tasks are pending
ConcurrentUpdate(record_id, req) ==
    /\ PendingTasks(tasks) + 2 <= MaxConcurrentTasks
    /\ UpdateRecordRequest("Person", record_id, req, TRUE, TRUE)

NextConcurrent ==
    \/ \E req \in ConcurrentReqs : CreateRecord("Person", req, TRUE, TRUE)
    \/ \E id \in RecordIds, req \in ConcurrentReqs : ConcurrentUpdate(id, req)
    \/ \E i \in 1..MaxConcurrentTasks : RunIndexRecord(i, "none")
    \/ \E i \in 1..MaxConcurrentTasks : RunBroadcast(i)

SpecConcurrent == Init /\ [][NextConcurrent]_vars

\* the document re-derived from the record in primary storage and the schema
Projection(record) ==
    LET table == Get(tables, record.table_id) IN
    Doc(get_index_name(table.name), record, IndexExistingData(table, record),
        generate_display_value(table, record).text,
        generate_display_value_secondary(table, record).text)

\* C11: the index is eventually consistent with primary storage.  Once no
\* write is in flight and every dispatched index task has completed (the
\* search engine never failing), the search document of every record equals
\* the projection of the record's current data: its searchable fields and
\* its rendered display values.
C11_IndexEventuallyConsistent ==
    (tasks = <<>>) =>
        \A r \in records :
           DocsOf(es.docs, Get(tables, r.table_id).name, r.id) = {Projection(r)}

-----------------------------------------------------------------------------
(* SpecEnum: enums are created and values are added to them *)

EnumNames == {"stage", "kind"}
EnumValueLists == {<<>>, <<"x">>, <<"x", "y">>, <<"x", "x">>}

NextEnum ==
    \/ \E name \in EnumNames, values \in EnumValueLists, c1 \in BOOLEAN, c2 \in BOOLEAN :
          CreateEnum(name, values, c1, c2)
    \/ \E id \in 1..(Cardinality(CrmEnums) + MaxNewSchemaRows), value \in {"x", "y", "won"},
          commit_ok \in BOOLEAN :
          AddEnumValue(id, value, commit_ok)
    \/ \E i \in 1..MaxTasks : RunBroadcast(i)

SpecEnum == Init /\ [][NextEnum]_vars

\* C16: in every reachable state the values of an Enum are pairwise
\* distinct, after any sequence of create_enum (with any list of initial
\* values, a repeated one included) and add_enum_value calls.
C16_EnumValuesDistinct ==
    \A e \in enums :
       \A i \in DOMAIN e.values, j \in DOMAIN e.values :
          i # j => e.values[i] # e.values[j]

-----------------------------------------------------------------------------
(* SpecNames: requests that create or rename tables, columns, link tables   *)
(* and enums, served concurrently: the SELECT of a create may have run      *)
(* before the commit of the request that took the name (stale)              *)

TableNames == {"Person", "Client"}
ColumnNames == {"Name", "nick"}
LinkTableNames == {"knows", "likes"}
NamedTable(name) == [name |-> name, display_format |-> <<>>, display_format_secondary |-> <<>>]
NamedColumn(name) == Col(0, 0, name, "string")
NamedTables == {NamedTable(name) : name \in TableNames}
NamedColumns == {NamedColumn(name) : name \in ColumnNames}

NextNames ==
    \/ \E name \in TableNames, stale \in BOOLEAN :
          CreateTableChecked(name, TRUE, ~stale /\ TableByName(name) # {})
    \/ \E id \in 1..2, table \in NamedTables, commit_ok \in BOOLEAN :
          UpdateTable(id, table, commit_ok)
    \/ \E column \in NamedColumns, stale \in BOOLEAN :
          CreateColumnChecked(1, column, TRUE,
              ~stale /\ \E c \in columns : c.table_id = 1 /\ c.name = column.name)
    \/ \E id \in 1..2, column \in NamedColumns :
          UpdateColumn(id, column, TRUE)
    \/ \E name \in LinkTableNames, stale \in BOOLEAN :
          CreateLinkTableChecked(name, 1, 2, TRUE,
              ~stale /\ \E lt \in linkTables : lt.name = name)
    \/ \E id \in 1..2, name \in LinkTableNames : UpdateLinkTable(id, name, 1, 2, TRUE)
    \/ \E name \in EnumNames, stale \in BOOLEAN :
          CreateEnumChecked(name, <<>>, TRUE, TRUE,
              ~stale /\ \E e \in enums : e.name = name)
    \/ \E i \in 1..MaxTasks : RunBroadcast(i)

SpecNames == Init /\ [][NextNames]_vars

NamesUnique ==
    /\ \A a \in tables, b \in tables : a.name = b.name => a.id = b.id
    /\ \A a \in enums, b \in enums : a.name = b.name => a.id = b.id
    /\ \A a \in linkTables, b \in linkTables : a.name = b.name => a.id = b.id
    /\ \A a \in columns, b \in columns :
          (a.table_id = b.table_id /\ a.name = b.name) => a.id = b.id

\* the table a create_column request named
ColumnScope ==
    IF last'.status = 200 THEN Get(columns', last'.rid).table_id ELSE last'.rid

\* the request answered by the step named a row that another row already
\* holds: carrying it out would create a duplicate
WouldDuplicate ==
    LET name == last'.table
        id == last'.rid
    IN \/ last'.op = "create_table" /\ \E t \in tables : t.name = name
       \/ last'.op = "update_table" /\ \E t \in tables : t.name = name /\ t.id # id
       \/ last'.op = "create_enum" /\ \E e \in enums : e.name = name
       \/ last'.op = "create_link_table" /\ \E lt \in linkTables : lt.name = name
       \/ last'.op = "update_link_table"
             /\ \E lt \in linkTables : lt.name = name /\ lt.id # id
       \/ last'.op = "create_column"
             /\ \E c \in columns : c.table_id = ColumnScope /\ c.name = name
       \/ last'.op = "update_column" /\ Has(columns, id)
             /\ \E c \in columns : /\ c.table_id = Get(columns, id).table_id
                                   /\ c.name = name /\ c.id # id

\* C15: in every reachable state no two Tables, no two Enums and no two
\* LinkTables share a name, and no two Columns of one Table do; a create or
\* rename request that would create a duplicate, the one that lost a
\* check-then-insert race and fails at commit included, ends with a 4xx
\* error and changes nothing.
C15_NamesUnique ==
    /\ []NamesUnique
    /\ [][WouldDuplicate =>
            /\ last'.status \in 400..499
            /\ UNCHANGED <<schemaVars, records, linkRecords, seqs, es, tasks>>]_vars

\* a create_table whose SELECT saw no table of that name lost the race: the
\* name was taken when it committed
C15_Witness ==
    /\ last.op = "create_table"
    /\ last.status = 400
    /\ last.why = "commit"
    /\ \E t \in tables : t.name = last.table

-----------------------------------------------------------------------------
(* SpecBroadcast: subscribers connect and go away while record writes queue *)
(* data_update events                                                       *)

\* the request body of the one write these runs repeat
NameOnlyReq == Req(Map1("Name", StrV("a")))

NextBroadcast ==
    \/ \E socket \in Sockets : Connect(socket)
    \/ \E socket \in Sockets : ClientGone(socket)
    \/ \E socket \in Sockets : Disconnect(socket)
    \/ CreateRecord("Person", NameOnlyReq, TRUE, TRUE)
    \/ \E i \in 1..MaxTasks : RunIndexRecord(i, "none")
    \/ \E i \in 1..MaxTasks : RunBroadcast(i)

SpecBroadcast == Init /\ [][NextBroadcast]_vars

\* manager.broadcast ran in this step
BroadcastStep == last'.op = "broadcast" /\ tasks' # tasks

\* what a socket was sent in the step
SentInStep(socket) ==
    SubSeq(ws'.received[socket], Len(ws.received[socket]) + 1,
           Len(ws'.received[socket]))

\* C18: ConnectionManager.broadcast delivers the event once to every
\* subscriber connected at the time of the call, whatever the set of
\* connected subscribers is, delivers nothing to the others (those that
\* connect afterwards get nothing of it), and a delivery failure is
\* swallowed: the call does not raise, and the subscribers whose client is
\* still there receive the event all the same.
C18_BroadcastReachesAllConnected ==
    [][BroadcastStep =>
         /\ last'.status = 0
         /\ \A socket \in Sockets :
               Len(SentInStep(socket)) =
                  (IF socket \in Range(ws.active_connections) /\ socket \in ws.open
                   THEN 1 ELSE 0)]_vars

-----------------------------------------------------------------------------
(* Commit failures: every handler wraps session.commit() in                 *)
(* try / except Exception, rolls back and raises HTTPException              *)

\* what session.commit() can do: succeed, raise for a violated constraint, or
\* raise for any other reason (connection lost, deadlock, disk full)
CommitOutcomes == {"ok", "IntegrityError", "OperationalError"}

\* `except Exception` takes the same branch for every exception class
Commits(outcome) == outcome = "ok"

StatusClassOf(outcome) ==
    IF outcome = "IntegrityError" THEN 400..499 ELSE 500..599

\* the step is a record or link-record write whose first commit ended with
\* `outcome`
CommitFailedWith(outcome) ==
    /\ last'.why = "commit"
    /\ \/ \E w \in WriteInputs, c2 \in BOOLEAN :
             CreateRecord(w[1], w[2], Commits(outcome), c2)
       \/ \E w \in WriteInputs, id \in RecordIds, c2 \in BOOLEAN :
             UpdateRecord(w[1], id, w[2], Commits(outcome), c2)
       \/ \E t \in {"Person", "Company"}, id \in RecordIds :
             DeleteRecord(t, id, Commits(outcome))
       \/ \E f \in RecordIds, t \in RecordIds :
             CreateLinkRecord(1, f, t, EmptyMap, Commits(outcome))

\* the step is a record write whose link reconciliation commit ended with
\* `outcome`
LinkCommitFailedWith(outcome) ==
    /\ last'.why = "link_commit"
    /\ \/ \E w \in WriteInputs :
             CreateRecord(w[1], w[2], TRUE, Commits(outcome))
       \/ \E w \in WriteInputs, id \in RecordIds :
             UpdateRecord(w[1], id, w[2], TRUE, Commits(outcome))

\* C21: a commit that fails for a reason other than a constraint violation is
\* answered with a 5xx status, a constraint violation with a 4xx status, and
\* the failure undoes the in-flight transaction only: nothing of the failed
\* transaction is stored and what earlier transactions stored stays.
C21_CommitFailureStatusClass ==
    [][\A outcome \in CommitOutcomes \ {"ok"} :
          /\ CommitFailedWith(outcome) =>
                /\ last'.status \in StatusClassOf(outcome)
                /\ UNCHANGED <<schemaVars, records, linkRecords>>
          /\ LinkCommitFailedWith(outcome) =>
                /\ last'.status \in StatusClassOf(outcome)
                /\ UNCHANGED <<schemaVars, linkRecords>>]_vars

-----------------------------------------------------------------------------
(* SpecAbsent: record requests that name a table or a record that is not    *)
(* there                                                                    *)

AbsentInputs ==
    {<<"Person", Req(Map1("Name", StrV("a")))>>,
     <<"Company", Req(EmptyMap)>>,
     <<"Ghost", Req(Map1("Name", StrV("a")))>>}

NextAbsent ==
    \/ \E w \in AbsentInputs : CreateRecord(w[1], w[2], TRUE, TRUE)
    \/ \E w \in AbsentInputs, id \in 1..(MaxRecords + 1) :
          UpdateRecord(w[1], id, w[2], TRUE, TRUE)
    \/ \E t \in {"Person", "Company", "Ghost"}, id \in 1..(MaxRecords + 1) :
          DeleteRecord(t, id, TRUE)
    \/ \E i \in 1..MaxTasks : RunIndexRecord(i, "none")
    \/ \E i \in 1..MaxTasks : RunRemoveRecordFromIndex(i, TRUE)
    \/ \E i \in 1..MaxTasks : RunBroadcast(i)

SpecAbsent == Init /\ [][NextAbsent]_vars

\* the record request named by last' names no table, or (update, delete) a
\* record id that the table named does not hold in the state the request found
NamesAbsentEntity ==
    /\ last'.op \in {"create_record", "update_record", "delete_record"}
    /\ \/ \A t \in tables : t.name # last'.table
       \/ /\ last'.op \in {"update_record", "delete_record"}
          /\ \A r \in records, t \in tables :
                ~(r.id = last'.rid /\ r.table_id = t.id /\ t.name = last'.table)

\* C22: a record request under an unknown table name, or an update or delete
\* of a record id that does not exist or sits in another table than the one
\* named, is answered 404 and changes neither the records, the link records,
\* the index, nor the queue of background work (no index task, no broadcast
\* is dispatched) nor what the subscribers received.
C22_AbsentEntityAborts ==
    [][NamesAbsentEntity =>
          /\ last'.status = 404
          /\ UNCHANGED <<schemaVars, records, linkRecords, es, tasks, ws>>]_vars

\* a delete has just been refused for a stored record that was addressed
\* through another table's name, with documents in the index
C22_Witness ==
    /\ last.op = "delete_record" /\ last.status = 404
    /\ last.why = "record_not_found"
    /\ \E r \in records : r.id = last.rid
    /\ es.docs # {}

-----------------------------------------------------------------------------
(* Free-text search: records.py 579-656                                     *)

\* es.search with multi_match over the fields: the document holds the query
\* in one of the searched data fields or as a piece of a display value
Matches(doc, searchable_fields, query) ==
    \/ \E f \in searchable_fields :
          /\ f \in DOMAIN doc.data
          /\ IsStr(doc.data[f])
          /\ doc.data[f].s = query
    \/ query \in Range(doc.display_value)
    \/ query \in Range(doc.display_value_secondary)

\* lines 635-637: the records of the hits, fetched from the database
FetchHits_AnyTable(table, record_ids) ==
    {r \in records : r.id \in record_ids}

FetchHits(table, record_ids) ==
    {r \in records : r.id \in record_ids /\ r.table_id = table.id}

\* lines 640-654: one RecordRead per hit whose record was fetched, the data
\* from the record, the display values from the hit
RECURSIVE RecordReads(_, _)
RecordReads(hits, fetched) ==
    IF hits = <<>> THEN <<>>
    ELSE LET hit == Head(hits)
             record == {r \in fetched : r.id = hit.id}
         IN (IF record = {} THEN <<>>
             ELSE LET r == CHOOSE x \in record : TRUE
                  IN <<[id |-> r.id, table_id |-> r.table_id, data |-> r.data,
                        display_value |-> hit.display_value,
                        display_value_secondary |-> hit.display_value_secondary]>>)
            \o RecordReads(Tail(hits), fetched)

\* es_outcome: "ok", "not_found" (the index does not exist) or "error"
SearchRecords(table_name, query, es_outcome) ==
    /\ UNCHANGED <<schemaVars, records, linkRecords, seqs, es, tasks, ws>>
    /\ IF TableByName(table_name) = {}
       THEN last' = RecordResp("search_records", 404, "table_not_found", table_name, 0, NoReq)
       ELSE LET table == CHOOSE t \in TableByName(table_name) : TRUE
                searchable_fields ==
                    {Lower(c.name) : c \in {x \in columns : /\ x.table_id = table.id
                                                            /\ x.searchable}}
                index_name == get_index_name(table.name)
                hits == SetToSeq({d \in es.docs : /\ d.index = index_name
                                                  /\ Matches(d, searchable_fields, query)})
                record_ids == [i \in DOMAIN hits |-> hits[i].id]
                fetched == FetchHits(table, Range(record_ids))
                answer(status, why) ==
                    RecordResp("search_records", status, why, table_name, 0, NoReq)
            IN IF es_outcome = "not_found"
               THEN /\ \A d \in es.docs : d.index # index_name
                    /\ last' = answer(200, "index_not_found")
               ELSE IF es_outcome = "error"
               THEN last' = answer(500, "search_failed")
               ELSE last' = [answer(200, "ok")
                             EXCEPT !.hits = record_ids,
                                    !.results = RecordReads(hits, fetched)]

-----------------------------------------------------------------------------
(* SpecSearch: two tables whose names differ in case only, so that both     *)
(* write to the index records_client                                        *)

SearchTables == {Tbl(1, "Client"), Tbl(2, "client")}

SearchColumns ==
    {[Col(1, 1, "Name", "string") EXCEPT !.searchable = TRUE],
     [Col(2, 2, "Name", "string") EXCEPT !.searchable = TRUE]}

SearchReqs == {Req(Map1("Name", StrV("a")))}

InitSearch ==
    /\ tables = SearchTables
    /\ columns = SearchColumns
    /\ enums = {}
    /\ linkTables = {}
    /\ linkColumns = {}
    /\ linkRecords = {}
    /\ records = {}
    /\ seqs = [CrmSeqs EXCEPT !.table = Cardinality(SearchTables) + 1,
                              !.column = Cardinality(SearchColumns) + 1,
                              !.link_table = 1, !.enum = 1]
    /\ es = [docs |-> {}]
    /\ tasks = <<>>
    /\ ws = NoSockets
    /\ last = Resp("init", 0, "")

NextSearch ==
    \/ \E t \in {"Client", "client"}, req \in SearchReqs : CreateRecord(t, req, TRUE, TRUE)
    \/ \E t \in {"Client", "client"}, id \in RecordIds : DeleteRecord(t, id, TRUE)
    \/ \E i \in 1..MaxTasks : RunIndexRecord(i, "none")
    \/ \E i \in 1..MaxTasks, es_ok \in BOOLEAN : RunRemoveRecordFromIndex(i, es_ok)
    \/ \E i \in 1..MaxTasks : RunBroadcast(i)
    \/ \E t \in {"Client", "client", "Ghost"}, query \in {"a", "zz"},
          es_outcome \in {"ok", "not_found", "error"} :
          SearchRecords(t, query, es_outcome)

SpecSearch == InitSearch /\ [][NextSearch]_vars

\* C23: every record a search returns is stored in the database at the time
\* of the search, belongs to the table that was searched and carries the data
\* of the stored row: the document of a deleted record, and the document of
\* another table's record that shares the lower-cased index, are not returned.
C23_SearchReturnsStoredRecordsOfTable ==
    last.op = "search_records" =>
        \A i \in DOMAIN last.results :
            \E r \in records, t \in tables :
                /\ t.name = last.table
                /\ r.table_id = t.id
                /\ r.id = last.results[i].id
                /\ r.data = last.results[i].data

\* a search hit the document of another table's record next to one of its
\* own, and returned only its own
C23_Witness ==
    /\ last.op = "search_records" /\ last.why = "ok"
    /\ last.results # <<>>
    /\ \E i \in DOMAIN last.hits :
          \E r \in records, t \in tables :
              r.id = last.hits[i] /\ r.table_id = t.id /\ t.name # last.table

\* a search hit the document that a deleted record left in the index
SearchHitDeletedRecord ==
    /\ last.op = "search_records" /\ last.why = "ok"
    /\ \E i \in DOMAIN last.hits : \A r \in records : r.id # last.hits[i]

-----------------------------------------------------------------------------
(* Two overlapping update_record requests on one record.  The handlers are  *)
(* plain `def` endpoints, run in the thread pool, each with its own Session *)
(* on PostgreSQL (READ COMMITTED); process_link_data takes no lock and      *)
(* LinkRecord has no unique constraint on its endpoints.                    *)

\* session.commit() of the session that selected `snapshot` and staged
\* `staged` from it, on the rows `committed` that the other session has
\* committed since: deletes and updates go by primary key, inserts get new
\* ids; an UPDATE that matches no row raises StaleDataError
CommitStaged(snapshot, staged, committed) ==
    LET deleted == {lr \in snapshot : ~Has(staged, lr.id)}
        rewritten == {lr \in staged : Has(snapshot, lr.id) /\ lr \notin snapshot}
        inserted == {lr \in staged : ~Has(snapshot, lr.id)}
    IN [raised |-> \E lr \in rewritten : ~Has(committed, lr.id),
        links |-> {lr \in committed : ~Has(deleted, lr.id) /\ ~Has(rewritten, lr.id)}
                     \cup rewritten \cup inserted]

\* records.py 462-524 twice: both requests have committed their Record row
\* and both run the select of lines 323-328 before either commits its links;
\* the first request commits (lines 367-368), then the second
UpdateRecordRace(table_name, record_id, req1, req2) ==
    /\ UNCHANGED ws
    /\ PendingTasks(tasks) + 4 <= MaxConcurrentTasks
    /\ TableByName(table_name) # {}
    /\ LET table == CHOOSE t \in TableByName(table_name) : TRUE
           found == RecordOfTable(table, record_id)
           link_data1 == ExtractLinkData(req1)
           link_data2 == ExtractLinkData(req2)
       IN /\ found # {}
          /\ ValidationPasses(ValidationErrors(table, req1.data, link_data1))
          /\ ValidationPasses(ValidationErrors(table, req2.data, link_data2))
          /\ LET old == CHOOSE r \in found : TRUE
                 db_record1 == [old EXCEPT !.data = req1.data]
                 db_record2 == [old EXCEPT !.data = req2.data]
                 first == ProcessLinkData(table, db_record1,
                              LinkDataAfterValidation(table, req1.data, link_data1))
                 after2 == LinkDataAfterValidation(table, req2.data, link_data2)
                 second == ProcessLinkKeys(table, db_record2, after2,
                               SetToSeq(DOMAIN after2),
                               [links |-> linkRecords, next |-> first.next])
                 commit2 == CommitStaged(linkRecords, second.links, first.links)
                 batch(data) == <<IndexRecordTask(table.name, record_id, data),
                                  BroadcastTask("data_update", "update",
                                                table.name, record_id)>>
             IN /\ second.next - 1 <= MaxLinkRecords
                /\ records' = (records \ {old}) \cup {db_record2}
                /\ UNCHANGED <<schemaVars, es>>
                /\ IF commit2.raised
                   THEN /\ linkRecords' = first.links
                        /\ seqs' = [seqs EXCEPT !.link_record = second.next]
                        /\ tasks' = Append(tasks, batch(req1.data))
                        /\ last' = [RecordResp("update_record", 400, "link_commit",
                                               table_name, record_id, req2)
                                    EXCEPT !.concurrent = req1]
                   ELSE /\ linkRecords' = commit2.links
                        /\ seqs' = [seqs EXCEPT !.link_record = second.next]
                        /\ tasks' = tasks \o <<batch(req1.data), batch(req2.data)>>
                        /\ last' = [RecordResp("update_record", 200, "ok",
                                               table_name, record_id, req2)
                                    EXCEPT !.concurrent = req1]

\* SpecRace: Companies 1 and 2 and Person 3 are stored; the Person's
\* relationships are reconciled by single and by overlapping updates
RaceRecords ==
    {[id |-> 1, table_id |-> 2, data |-> EmptyMap],
     [id |-> 2, table_id |-> 2, data |-> EmptyMap],
     [id |-> 3, table_id |-> 1, data |-> Map1("Name", StrV("b"))]}

RaceReqs ==
    {FriendsReq(<<>>), FriendsReq(<<LinkTo(1)>>), FriendsReq(<<LinkTo(2)>>),
     FriendsReq(<<LinkToAs(1, "x")>>)}

InitRace ==
    /\ InitCommon
    /\ records = RaceRecords
    /\ seqs = [CrmSeqs EXCEPT !.record = Cardinality(RaceRecords) + 1]

NextRace ==
    \/ \E req \in RaceReqs : ConcurrentUpdate(3, req)
    \/ \E req1 \in RaceReqs, req2 \in RaceReqs : UpdateRecordRace("Person", 3, req1, req2)
    \/ \E i \in 1..MaxConcurrentTasks : RunIndexRecord(i, "none")
    \/ \E i \in 1..MaxConcurrentTasks : RunBroadcast(i)

SpecRace == InitRace /\ [][NextRace]_vars

\* the ids a request asks the friends relationship to hold
DesiredTargets(req) ==
    LET table == CHOOSE t \in TableByName("Person") : TRUE
        link_data == LinkDataAfterValidation(table, req.data, ExtractLinkData(req))
    IN {ToRecordId(link_data["friends"].items[i]) :
            i \in DOMAIN link_data["friends"].items}

\* C24: after two overlapping reconciliations of one record's relationship,
\* the record's edges are the desired set of one of the two requests, never
\* a merge of both, and no two LinkRecords share (link table, from, to).
C24_ConcurrentReconcileSerializable ==
    (last.op = "update_record" /\ last.concurrent # NoReq) =>
        /\ EdgeTargets(linkRecords, 1, last.rid)
              \in {DesiredTargets(last.req), DesiredTargets(last.concurrent)}
        /\ NoDuplicateEdges

-----------------------------------------------------------------------------
(* SpecLinkCommit: writes with relationship payloads whose row commit and   *)
(* whose link commit may each fail                                          *)

LinkCommitInputs ==
    ({"Person"} \X {FriendsReq(<<>>), FriendsReq(<<LinkTo(1)>>),
                     FriendsReq(<<LinkToAs(1, "x")>>)})
    \cup ({"Company"} \X {Req(EmptyMap)})

NextLinkCommit ==
    \/ \E w \in LinkCommitInputs, c1 \in BOOLEAN, c2 \in BOOLEAN :
          CreateRecord(w[1], w[2], c1, c2)
    \/ \E w \in LinkCommitInputs, id \in RecordIds, c1 \in BOOLEAN, c2 \in BOOLEAN :
          UpdateRecord(w[1], id, w[2], c1, c2)
    \/ \E i \in 1..MaxTasks : RunIndexRecord(i, "none")
    \/ \E i \in 1..MaxTasks : RunBroadcast(i)

SpecLinkCommit == Init /\ [][NextLinkCommit]_vars

-----------------------------------------------------------------------------
(* Order of the steps of one record write *)

\* the table and the payload of the write named by last'
WrittenTable == CHOOSE t \in TableByName(last'.table) : TRUE
WrittenLinkData ==
    LinkDataAfterValidation(WrittenTable, last'.req.data, ExtractLinkData(last'.req))

\* the Record row of the write is committed with the payload's data
RowCommitted ==
    \E r \in records' : /\ r.id = last'.rid
                        /\ r.table_id = WrittenTable.id
                        /\ r.data = last'.req.data

\* across one create_record or update_record: a row is written only after
\* validation passed; links are touched only with the row committed; tasks
\* are dispatched only with the row committed and the reconciliation
\* committed, and they are this write's index upsert and broadcast
WriteStepOrder ==
    last'.op \in WriteOps =>
        /\ records' # records =>
              /\ TableByName(last'.table) # {}
              /\ ValidationPasses(ValidationErrors(WrittenTable, last'.req.data,
                                                   ExtractLinkData(last'.req)))
              /\ RowCommitted
        /\ linkRecords' # linkRecords => RowCommitted
        /\ tasks' # tasks =>
              /\ RowCommitted
              /\ last'.why = "ok"
              /\ linkRecords' = ProcessLinkData(WrittenTable,
                                    CHOOSE r \in records' : r.id = last'.rid,
                                    WrittenLinkData).links
              /\ Len(tasks') = Len(tasks) + 1
              /\ LET batch == tasks'[Len(tasks')]
                 IN /\ Len(batch) = 2
                    /\ batch[1].kind = "index_record" /\ batch[1].record_id = last'.rid
                    /\ batch[2].kind = "broadcast" /\ batch[2].record_id = last'.rid

\* every pending index upsert or create/update event, and every document in
\* the index, is about a record id whose row has been committed
IndexAndEventsFollowCommit ==
    /\ \A i \in DOMAIN tasks : \A j \in DOMAIN tasks[i] :
          (\/ tasks[i][j].kind = "index_record"
           \/ /\ tasks[i][j].kind = "broadcast"
              /\ tasks[i][j].action \in {"create", "update"})
          => tasks[i][j].record_id \in 1..(seqs.record - 1)
    /\ \A d \in es.docs : d.id \in 1..(seqs.record - 1)

\* C25: within one create_record or update_record validation comes before the
\* row commit, the row commit before link reconciliation, and the index
\* upsert and the broadcast are dispatched only after the reconciliation has
\* committed; no index write and no event of a write precedes its row commit.
C25_WriteStepsInOrder == []IndexAndEventsFollowCommit /\ [][WriteStepOrder]_vars

\* a write carrying relationships has gone through all its steps: row and
\* edges are stored and its two tasks are queued
C25_Witness ==
    /\ last.op \in WriteOps /\ last.why = "ok"
    /\ DOMAIN last.req.link # {}
    /\ \E lr \in linkRecords : lr.from_record_id = last.rid
    /\ tasks # <<>>
    /\ tasks[Len(tasks)][1].record_id = last.rid

\* the write named by last' committed its Record row: it ended well, or it
\* failed afterwards, in the commit of process_link_data
RowCommitStep ==
    /\ last'.op \in WriteOps
    /\ last'.why \in {"ok", "link_commit"}

\* C26: every create or update whose Record row commits dispatches an index
\* upsert for that record id, also when the link reconciliation that follows
\* fails.
C26_CommittedWriteDispatchesIndex ==
    [][RowCommitStep =>
          /\ Len(tasks') = Len(tasks) + 1
          /\ \E j \in DOMAIN tasks'[Len(tasks')] :
                /\ tasks'[Len(tasks')][j].kind = "index_record"
                /\ tasks'[Len(tasks')][j].record_id = last'.rid]_vars

\* the events queued for manager.broadcast
PendingBroadcasts(batches) ==
    SelectSeq(Flatten(batches), LAMBDA task : task.kind = "broadcast")

\* an index task ran in this step and failed: the search engine could not be
\* reached, a display value could not be rendered, or the call itself failed
IndexTaskFailedStep ==
    /\ last'.op \in IndexTaskOps
    /\ tasks' # tasks
    /\ last'.why \in {"es_raised", "es_error", "render_raised", "type_error"}

\* C27: index and broadcast failures are isolated from each other.  When the
\* index upsert or the bulk reindex of a write fails, the write's data_update
\* or schema_update event is still broadcast: the failed task takes no queued
\* event with it.
C27_IndexFailureKeepsBroadcast ==
    [][IndexTaskFailedStep =>
          PendingBroadcasts(tasks') = PendingBroadcasts(tasks)]_vars

\* C28: when the commit of the link reconciliation fails, none of the call's
\* LinkRecord inserts, attribute updates and deletes is applied, for any
\* relationship field of the payload, the caller gets a 4xx, and the Record
\* row the request wrote before stays committed with its new data.
C28_LinkCommitFailureRollsBackLinksOnly ==
    [][(last'.op \in WriteOps /\ last'.why = "link_commit") =>
          /\ UNCHANGED linkRecords
          /\ last'.status \in 400..499
          /\ RowCommitted]_vars

\* the reconciliation of an update failed at its commit; it had staged
\* changes to the edges the record already had, and the row carries the
\* data of the request
C28_Witness ==
    /\ last.op = "update_record" /\ last.why = "link_commit"
    /\ \E lr \in linkRecords : lr.from_record_id = last.rid
    /\ LET table == CHOOSE t \in TableByName(last.table) : TRUE
           record == CHOOSE r \in records : r.id = last.rid
           staged == ProcessLinkData(table, record,
                        LinkDataAfterValidation(table, last.req.data,
                                                ExtractLinkData(last.req))).links
       IN /\ record.data = last.req.data
          /\ staged # linkRecords
          /\ \E lr \in linkRecords : lr \notin staged

-----------------------------------------------------------------------------
(* The reference graph of the stored records *)

\* the stored records a record points at: the ids under its plain reference
\* columns and the far ends of its link-table edges
ReferenceTargets(record) ==
    LET cols == {c \in columns : /\ c.table_id = record.table_id
                                 /\ c.data_type = "reference"
                                 /\ c.name \in DOMAIN record.data}
        targets(c) ==
            IF c.reference_table_id # 0 THEN RefIds(record.data[c.name])
            ELSE IF c.reference_link_table_id # 0
            THEN {lr.to_record_id : lr \in ExistingLinks(linkRecords,
                                              c.reference_link_table_id, record.id)}
            ELSE {}
    IN {id \in UNION {targets(c) : c \in cols} : Has(records, id)}

\* some chain of references from the record comes back to a record on `path`
RECURSIVE ReachesCycle(_, _)
ReachesCycle(id, path) ==
    \/ id \in path
    \/ \E next \in ReferenceTargets(Get(records, id)) :
          ReachesCycle(next, path \cup {id})

\* the number of records on the longest chain of references from the record
RECURSIVE LongestChain(_)
LongestChain(id) ==
    1 + MaxOf({LongestChain(next) : next \in ReferenceTargets(Get(records, id))})

-----------------------------------------------------------------------------
(* SpecRequired: validation of Person payloads when the relationship column *)
(* friends is required                                                      *)

RequiredColumns ==
    {IF c.name = "friends" THEN [c EXCEPT !.required = TRUE] ELSE c : c \in CrmColumns}

RequiredPayloads == {f \in Payloads : DOMAIN f \subseteq {"Name", "age", "code", "status"}}

InitRequired ==
    /\ tables = CrmTables
    /\ columns = RequiredColumns
    /\ enums = CrmEnums
    /\ linkTables = CrmLinkTables
    /\ linkColumns = CrmLinkColumns
    /\ linkRecords = {}
    /\ records = StoredRecords
    /\ seqs = [CrmSeqs EXCEPT !.record = Cardinality(StoredRecords) + 1]
    /\ es = [docs |-> {}]
    /\ tasks = <<>>
    /\ ws = NoSockets
    /\ last = Resp("init", 0, "")

NextRequired ==
    \E data \in RequiredPayloads, link \in LinkPayloads :
        Validate("Person", ReqL(data, link))

SpecRequired == InitRequired /\ [][NextRequired]_vars

\* C30: validation reports a required column as missing exactly when its
\* name is absent from the payload and no <column>_link_data entry supplies
\* it; a required column supplied through its link-data entry gets no
\* missing-field error.
C30_RequiredUnlessLinkData ==
    last.op = "validate_record_data" =>
        \A c \in columns :
            (c.table_id = 1 /\ c.required) =>
                (Err("missing", c.name) \in Range(last.errors)
                    <=> /\ c.name \notin DOMAIN last.req.data
                        /\ c.name \notin DOMAIN ExtractLinkData(last.req))

-----------------------------------------------------------------------------
(* SpecInteger: validation of payloads for a table whose columns are        *)
(* integer columns, scalar or list, as create_column stores them            *)

IntegerColumns(age_is_list, scores_is_list) ==
    {[Col(1, 1, "age", "integer") EXCEPT !.is_list = age_is_list],
     [Col(2, 1, "scores", "integer") EXCEPT !.is_list = scores_is_list]}

\* 3, True, "x", 2.0, [], [1], [1, "x"]
IntegerValues ==
    {IntV(3), BoolV(1), StrV("x"), FloatV(2), ListV(<<>>), ListV(<<IntItem(1)>>),
     ListV(<<IntItem(1), StrItem("x")>>)}

IntegerPayloads == UNION {[K -> IntegerValues] : K \in SUBSET {"age", "scores"}}

InitInteger ==
    /\ tables = CrmTables
    /\ columns \in {IntegerColumns(a, s) : a \in BOOLEAN, s \in BOOLEAN}
    /\ enums = {}
    /\ linkTables = {}
    /\ linkColumns = {}
    /\ linkRecords = {}
    /\ records = {}
    /\ seqs = [CrmSeqs EXCEPT !.column = 3, !.link_table = 1, !.enum = 1]
    /\ es = [docs |-> {}]
    /\ tasks = <<>>
    /\ ws = NoSockets
    /\ last = Resp("init", 0, "")

NextInteger == \E data \in IntegerPayloads : Validate("Person", Req(data))

SpecInteger == InitInteger /\ [][NextInteger]_vars

\* a whole number: a Python int that is not a bool
WholeNumber(t) == t = "int"

IntegerValueConforms(column, v) ==
    IF column.is_list
    THEN IsList(v) /\ \A i \in DOMAIN v.xs : WholeNumber(v.xs[i].t)
    ELSE WholeNumber(v.t)

\* C31: for an integer column the validator accepts a value iff it is a whole
\* number (is_list false) or a list of whole numbers (is_list true); a
\* boolean, a string or a fractional number is a type error in either case.
C31_IntegerColumnAcceptsWholeNumbers ==
    last.op = "validate_record_data" =>
        \A c \in columns :
            c.name \in DOMAIN last.req.data =>
                (Err("type", c.name) \notin Range(last.errors)
                    <=> IntegerValueConforms(c, last.req.data[c.name]))

-----------------------------------------------------------------------------
(* SpecEnumWrite: writes to the enum column status while the values of its  *)
(* enum are added and removed and the enum is deleted                       *)

StatusReqs == {Req(Map2("Name", StrV("a"), "status", v)) : v \in {StrV("new"), StrV("bad"), IntV(1)}}

NextEnumWrite ==
    \/ \E req \in StatusReqs : CreateRecord("Person", req, TRUE, TRUE)
    \/ \E id \in RecordIds, req \in StatusReqs : UpdateRecord("Person", id, req, TRUE, TRUE)
    \/ \E c \in BOOLEAN : AddEnumValue(1, "bad", c)
    \/ \E i \in 1..3, c \in BOOLEAN : RemoveEnumValue(1, i, c)
    \/ \E c \in BOOLEAN : DeleteEnum(1, c)
    \/ \E i \in 1..MaxTasks : RunIndexRecord(i, "none")
    \/ \E i \in 1..MaxTasks : RunBroadcast(i)

SpecEnumWrite == Init /\ [][NextEnumWrite]_vars

\* the column status is defined bound to the enum with id 1
StatusEnumId == (CHOOSE c \in CrmColumns : c.name = "status").enum_id

StatusWrite ==
    /\ last.op \in {"create_record", "update_record"}
    /\ last.why \in {"ok", "validation"}
    /\ "status" \in DOMAIN last.req.data

InStatusEnum(v) ==
    /\ IsStr(v)
    /\ Has(enums, StatusEnumId)
    /\ v.s \in Range(Get(enums, StatusEnumId).values)

EnumEditStep ==
    last'.op \in {"add_enum_value", "remove_enum_value", "delete_enum"} => records' = records

\* C32: a write to an enum column is accepted iff its value is a string in
\* the current values of the enum the column is bound to: a removed value is
\* rejected from then on, a write after the enum was deleted is rejected with
\* an error for the field, and editing or deleting the enum changes no record.
C32_EnumCheckedAtWriteTime ==
    /\ [](StatusWrite => (last.status = 200 <=> InStatusEnum(last.req.data["status"])))
    /\ [][EnumEditStep]_vars

-----------------------------------------------------------------------------
(* SpecColumns: columns of Person are created and updated, records of       *)
(* Person are written                                                       *)

\* ColumnCreate bodies sent to POST /tables/1/columns/
CreatedColumns ==
    {[Col(0, 0, "tags", "string") EXCEPT !.unique = TRUE, !.is_list = TRUE],
     [Col(0, 0, "boss", "reference") EXCEPT !.reference_table_id = 2,
                                            !.reference_link_table_id = 1],
     Col(0, 0, "boss", "reference")}

\* ColumnCreate bodies sent to PUT /columns/{id}/ with the id of code (2),
\* employer (3) and friends (4)
UpdatedColumns ==
    {<<2, [Col(0, 0, "code", "reference") EXCEPT !.unique = TRUE]>>,
     <<3, Col(0, 0, "employer", "string")>>,
     <<3, [Col(0, 0, "employer", "reference") EXCEPT !.reference_table_id = 2]>>,
     <<4, [Col(0, 0, "friends", "reference") EXCEPT !.reference_link_table_id = 1,
                                                   !.is_list = TRUE, !.unique = TRUE]>>}

ColumnWrites ==
    {Req(Map1("Name", StrV("a"))),
     Req(Map2("Name", StrV("a"), "tags", StrV("x"))),
     Req(Map2("Name", StrV("a"), "friends", ListV(<<IntItem(1)>>)))}

NextColumns ==
    \/ \E column \in CreatedColumns, c \in BOOLEAN : CreateColumn(1, column, c)
    \/ \E u \in UpdatedColumns, c \in BOOLEAN : UpdateColumn(u[1], u[2], c)
    \/ \E req \in ColumnWrites : CreateRecord("Person", req, TRUE, TRUE)
    \/ \E i \in 1..MaxTasks : RunIndexRecord(i, "none")
    \/ \E i \in 1..MaxTasks : RunBroadcast(i)

SpecColumns == Init /\ [][NextColumns]_vars

UniqueListColumns == {c \in columns : c.unique /\ c.is_list}

\* C33: a column that is both unique and is_list is flagged as a
\* configuration error when it is defined or, at the latest, when a record
\* supplying it is validated: no such column is stored by a successful
\* create_column or update_column unless every later write that supplies a
\* value for it is refused.
C33_UniqueListFlagged ==
    (last.op = "create_record" /\ last.status = 200) =>
        ~\E c \in UniqueListColumns :
            /\ c.table_id \in {t.id : t \in TableByName(last.table)}
            /\ c.name \in DOMAIN last.req.data

ReferenceBindings(c) ==
    {k \in {"reference_table_id", "reference_link_table_id"} : c[k] # 0}

\* C34: after any sequence of create_column and update_column calls every
\* column has at most one of reference_table_id and reference_link_table_id
\* set, only columns of data type reference have one set, and every column
\* of data type reference has exactly one set.
C34_ReferenceBindingWellFormed ==
    \A c \in columns :
        Cardinality(ReferenceBindings(c)) = (IF c.data_type = "reference" THEN 1 ELSE 0)

-----------------------------------------------------------------------------
(* SpecFrame: schema changes that are not reindex triggers, among record    *)
(* writes and the index tasks                                               *)

\* ColumnCreate bodies sent to PUT /columns/1/ (Name)
NameColumn(searchable) ==
    [Col(0, 0, "Name", "string") EXCEPT !.required = TRUE, !.searchable = searchable]
NameColumns == {NameColumn(searchable) : searchable \in BOOLEAN}

\* TableCreate bodies sent to PUT /tables/1/
FrameTableUpdates == {t \in TableUpdates : t.name = "Person"}

NextFrame ==
    \/ CreateRecord("Person", NameOnlyReq, TRUE, TRUE)
    \/ \E column \in NameColumns, commit_ok \in BOOLEAN :
          UpdateColumn(1, column, commit_ok)
    \/ \E commit_ok \in BOOLEAN : DeleteColumn(2, commit_ok)
    \/ \E t \in FrameTableUpdates, commit_ok \in BOOLEAN : UpdateTable(1, t, commit_ok)
    \/ \E i \in 1..MaxTasks : RunIndexRecord(i, "none")
    \/ \E i \in 1..MaxTasks : RunIndexExistingRecords(i, {})
    \/ \E i \in 1..MaxTasks : RunBroadcast(i)

SpecFrame == Init /\ [][NextFrame]_vars

IndexWork(batches) ==
    SelectSeq(Flatten(batches), LAMBDA task : task.kind # "broadcast")

\* the step is one of: update_column switching searchable off,
\* delete_column, update_table keeping both templates
NotAReindexTrigger ==
    \/ /\ last'.op = "update_column"
       /\ Has(columns, last'.rid) /\ Get(columns, last'.rid).searchable
       /\ Has(columns', last'.rid) /\ ~Get(columns', last'.rid).searchable
    \/ last'.op = "delete_column"
    \/ /\ last'.op = "update_table"
       /\ Has(tables, last'.rid)
       /\ Get(tables', last'.rid).display_format = Get(tables, last'.rid).display_format
       /\ Get(tables', last'.rid).display_format_secondary =
              Get(tables, last'.rid).display_format_secondary

\* C35: update_column switching searchable from true to false, delete_column
\* and an update_table that keeps both templates queue no index task and
\* leave every search document as it was.
C35_OtherSchemaChangesKeepIndex ==
    [][NotAReindexTrigger => (IndexWork(tasks') = IndexWork(tasks) /\ es' = es)]_vars

C35_Witness ==
    /\ last.op = "update_column" /\ last.status = 200
    /\ ~Get(columns, 1).searchable
    /\ \E d \in es.docs : "name" \in DOMAIN d.data

-----------------------------------------------------------------------------
(* One LinkRecord per edge *)

SameEdge(a, b) ==
    /\ a.link_table_id = b.link_table_id
    /\ a.from_record_id = b.from_record_id
    /\ a.to_record_id = b.to_record_id

\* C36: after any sequence of record writes with link data and of direct
\* create_link_record / update_link_record calls there is at most one
\* LinkRecord for each (link_table_id, from_record_id, to_record_id).
C36_OneLinkRecordPerEdge ==
    \A lr \in linkRecords : Cardinality({x \in linkRecords : SameEdge(x, lr)}) = 1

-----------------------------------------------------------------------------
(* SpecIndexRace: index_record in its two steps, the read of the record and *)
(* the es.index call, among updates and deletes of the record.  Background  *)
(* tasks are sync functions run in the thread pool, so requests and the     *)
(* tasks of other requests run between the two steps.                       *)

\* the task after its session.get found the record: the body it will send
EsIndexCall(task, doc) ==
    [kind |-> "es_index", table_name |-> task.table_name, record_id |-> task.record_id,
     table_id |-> task.table_id, data |-> task.data, type |-> "", action |-> "",
     nargs |-> 0, payload |-> "", doc |-> doc]

\* elasticsearch.py 198-229: the index is ensured, the record and its table
\* are read and the body is built
IndexRecordRead(i) ==
    /\ UNCHANGED ws
    /\ i \in DOMAIN tasks
    /\ Head(tasks[i]).kind = "index_record"
    /\ UNCHANGED <<schemaVars, records, linkRecords, seqs, es>>
    /\ LET task == Head(tasks[i])
           resp(status, why) ==
               last' = RecordResp("index_record", status, why, task.table_name,
                                  task.record_id, [NoReq EXCEPT !.data = task.data])
       IN
       IF ~Has(records, task.record_id)
       THEN tasks' = PopTask(i) /\ resp(0, "record_not_found")
       ELSE LET record == Get(records, task.record_id) IN
            IF ~Has(tables, record.table_id)
            THEN tasks' = PopTask(i) /\ resp(0, "table_not_found")
            ELSE LET table == Get(tables, record.table_id)
                     display_value == generate_display_value(table, record)
                     display_value_secondary ==
                         generate_display_value_secondary(table, record)
                 IN IF display_value.raised \/ display_value_secondary.raised
                    THEN tasks' = DropBatch(i) /\ resp(500, "render_raised")
                    ELSE /\ tasks' = [tasks EXCEPT ![i] =
                                <<EsIndexCall(task,
                                      Doc(get_index_name(task.table_name), record,
                                          IndexRecordData(task.data),
                                          display_value.text,
                                          display_value_secondary.text))>> \o Tail(@)]
                         /\ resp(0, "read")

\* elasticsearch.py 231-248: es.index with the body built from what was read
IndexRecordEsIndex(i) ==
    /\ UNCHANGED ws
    /\ i \in DOMAIN tasks
    /\ Head(tasks[i]).kind = "es_index"
    /\ UNCHANGED <<schemaVars, records, linkRecords, seqs>>
    /\ LET task == Head(tasks[i]) IN
       /\ es' = [es EXCEPT !.docs = EsIndex(@, task.doc)]
       /\ tasks' = PopTask(i)
       /\ last' = RecordResp("index_record", 0, "ok", task.table_name, task.record_id,
                             [NoReq EXCEPT !.data = task.data])

\* a delete that arrives while up to MaxConcurrentTasks tasks are pending
ConcurrentDelete(record_id) ==
    /\ PendingTasks(tasks) + 2 <= MaxConcurrentTasks
    /\ DeleteRecordRequest("Person", record_id, TRUE)

NextIndexRace ==
    \/ \E req \in ConcurrentReqs : CreateRecord("Person", req, TRUE, TRUE)
    \/ \E id \in RecordIds, req \in ConcurrentReqs : ConcurrentUpdate(id, req)
    \/ \E id \in RecordIds : ConcurrentDelete(id)
    \/ \E i \in 1..MaxConcurrentTasks : IndexRecordRead(i)
    \/ \E i \in 1..MaxConcurrentTasks : IndexRecordEsIndex(i)
    \/ \E i \in 1..MaxConcurrentTasks : RunRemoveRecordFromIndex(i, TRUE)
    \/ \E i \in 1..MaxConcurrentTasks : RunBroadcast(i)

SpecIndexRace == Init /\ [][NextIndexRace]_vars

\* C37: no search document outlives its record: whatever the interleaving of
\* an update_record and a delete_record of one record and of their
\* background tasks, once every dispatched task has completed the index holds
\* no document for a record id that primary storage lacks.
C37_NoDocumentOutlivesRecord ==
    tasks = <<>> => \A d \in es.docs : Has(records, d.id)

-----------------------------------------------------------------------------
(* SpecRelations: Person has the list relationship friends (link table 1)   *)
(* and the singular relationship boss (link table 2); its records are       *)
(* written with and without relationship payloads                           *)

RelationColumns ==
    CrmColumns \cup {[Col(7, 1, "boss", "reference") EXCEPT !.reference_link_table_id = 2]}

RelationLinkTables ==
    CrmLinkTables \cup {[id |-> 2, name |-> "reports", from_table_id |-> 1, to_table_id |-> 2]}

\* one company, or two companies and a person, as create_record calls leave them
RelationRecords == {{[id |-> 1, table_id |-> 2, data |-> EmptyMap]}, RaceRecords}

RelReq(link) == ReqL(Map1("Name", StrV("b")), link)

RelationReqs ==
    {RelReq(EmptyMap),
     RelReq(Map1("friends_link_data", LinkList(<<>>))),
     RelReq(Map1("friends_link_data", LinkList(<<LinkTo(1)>>))),
     RelReq(Map1("boss_link_data", LinkList(<<>>))),
     RelReq(Map1("boss_link_data", LinkList(<<LinkTo(1)>>))),
     RelReq(Map1("boss_link_data", LinkList(<<LinkTo(2)>>))),
     RelReq(Map1("boss_link_data", LinkList(<<LinkTo(1), LinkTo(2)>>))),
     RelReq(Map2("friends_link_data", LinkList(<<LinkTo(1)>>),
                 "boss_link_data", LinkList(<<LinkTo(1)>>)))}

InitRelations ==
    /\ tables = CrmTables
    /\ columns = RelationColumns
    /\ enums = CrmEnums
    /\ linkTables = RelationLinkTables
    /\ linkColumns = CrmLinkColumns
    /\ linkRecords = {}
    /\ records \in RelationRecords
    /\ seqs = [CrmSeqs EXCEPT !.record = Cardinality(records) + 1,
                              !.column = Cardinality(RelationColumns) + 1,
                              !.link_table = Cardinality(RelationLinkTables) + 1]
    /\ es = [docs |-> {}]
    /\ tasks = <<>>
    /\ ws = NoSockets
    /\ last = Resp("init", 0, "")

NextRelations ==
    \/ \E req \in RelationReqs, c \in BOOLEAN : CreateRecord("Person", req, TRUE, c)
    \/ \E id \in 2..3, req \in RelationReqs, c \in BOOLEAN :
          UpdateRecord("Person", id, req, TRUE, c)
    \/ \E i \in 1..MaxTasks : RunIndexRecord(i, "none")
    \/ \E i \in 1..MaxTasks : RunBroadcast(i)

SpecRelations == InitRelations /\ [][NextRelations]_vars

\* the LinkRecords of a link table that start at the record
LinksFrom(links, link_table_id, rid) ==
    {lr \in links : lr.link_table_id = link_table_id /\ lr.from_record_id = rid}

\* the link-data keys of the request that name a column of Person bound to
\* the link table
KeysOf(req, link_table_id) ==
    {k \in DOMAIN ExtractLinkData(req) :
        \E c \in columns : /\ c.table_id = 1 /\ c.name = k
                           /\ c.reference_link_table_id = link_table_id}

UpdateStep == last'.op = "update_record" /\ last'.status = 200

\* C38: an update_record whose payload has no <field>_link_data key for a
\* relationship field leaves the record's LinkRecords in that field's link
\* table as they were; one whose payload has the key with an empty list
\* removes all of them.
C38_AbsentKeyKeepsLinks ==
    [][UpdateStep =>
        \A lt \in linkTables :
            LET keys == KeysOf(last'.req, lt.id) IN
            /\ keys = {} =>
                  LinksFrom(linkRecords', lt.id, last'.rid)
                      = LinksFrom(linkRecords, lt.id, last'.rid)
            /\ (\E k \in keys : ExtractLinkData(last'.req)[k].items = <<>>) =>
                  LinksFrom(linkRecords', lt.id, last'.rid) = {}]_vars

C38_Witness ==
    /\ last.op = "update_record" /\ last.status = 200
    /\ DOMAIN last.req.link = {"boss_link_data"}
    /\ last.req.link["boss_link_data"].items = <<>>
    /\ LinksFrom(linkRecords, 1, last.rid) # {}
    /\ LinksFrom(linkRecords, 2, last.rid) = {}
    /\ seqs.link_record = 3

SingularColumns ==
    {c \in columns : c.reference_link_table_id # 0 /\ ~c.is_list}

====
